---- MODULE Spec2Model ----
(***************************************************************************)
(* Model of the PORE_FACTOR tools: the Canny segmentation pipeline         *)
(* (PoreAnalyzer._process_image and the older process_image), and the      *)
(* interactive sessions of PoreAnalyzer, ManualSegmenter and               *)
(* PixelCalibrator.                                                        *)
(*                                                                         *)
(* Numbers that are Python floats in the source (lengths, areas, ratios)   *)
(* are held in fixed point: a value v is the integer v * FP.  Kernel       *)
(* parameters are held in halves (the integer 2 * v) so that int() has     *)
(* something to truncate.                                                  *)
(***************************************************************************)
EXTENDS Integers, Sequences, FiniteSets, TLC

VARIABLES
    \* ---- locals of one run of the segmentation pipeline ----
    variant,        \* which process_image is running: "opus25" or "legacy"
    pc,             \* position in the pipeline: "start", "loop", "done", "raised"
    p,              \* the parameter dictionary handed to the pipeline
    image,          \* the grayscale image being processed
    g_k, m_k, d_k,  \* the kernel sizes handed to GaussianBlur, medianBlur, dilate
    binary,         \* output of cv2.threshold
    contours,       \* output of cv2.findContours
    ci,             \* index of the next contour of "for cnt in contours"
    filtered_image, \* the output mask under construction
    object_list,    \* the local list object_data under construction
    trace,          \* what happened to each contour visited so far
    \* ---- an interactive session: the files and the operator's screen ----
    tool,           \* the program running: "PoreAnalyzer", "ManualSegmenter",
                    \* "PixelCalibrator", or "none"
    phase,          \* "loop": run() is between two images; "show": a window is
                    \* open (plt.show() blocks); "done": run() returned;
                    \* "aborted": an exception left run()
    image_files,    \* self.image_files
    unreadable,     \* the files of the directory that do not decode
    input_dir,      \* what the input path is: "missing", "file" (not a
                    \* directory), "empty" (no supported image), "images"
    dirs,           \* the directories created at and under the output root
    calc,           \* a measurement on its own: its input and its result
    drawing,        \* the global 'drawing' of the older drawing script
    memo,           \* history: on the image at hand, the result the preview
                    \* showed for each setting of the sliders when that
                    \* setting was first reached
    disk,           \* the files under the output root: path -> content
    console,        \* the messages printed so far
    img_i,          \* how many entries "for img_path in self.image_files" has taken
    current_image_path,
    \* ---- PoreAnalyzer ----
    params,         \* self.params, the baseline parameters
    original_image, processed_image, object_data,
    sliders,        \* self.sliders, as name -> slider.val
    \* ---- ManualSegmenter ----
    all_shapes_data, shapes_on_current_image, current_points,
    \* ---- PixelCalibrator ----
    current_image_index, points, distance_results, define_point_active,
    \* ---- history, for stating the properties ----
    shown,          \* the images a window was opened for, in order
    last,           \* the handler that ran last
    disk_at_open,   \* disk as it was when the current window opened
    data_at_open,   \* the accumulated records as they were at that moment
    abandoned,      \* the images whose window was closed without saving
    edits           \* number of slider moves and clicks so far

plVars == <<variant, pc, p, image, g_k, m_k, d_k, binary, contours, ci,
            filtered_image, object_list, trace>>

envVars == <<tool, image_files, unreadable, input_dir, dirs, calc, drawing, memo>>

paVars == <<params, original_image, processed_image, object_data, sliders>>

msVars == <<all_shapes_data, shapes_on_current_image, current_points>>

pcVars == <<current_image_index, points, distance_results, define_point_active>>

histVars == <<shown, last, disk_at_open, data_at_open, abandoned, edits>>

sessVars == <<envVars, phase, disk, console, img_i, current_image_path, paVars,
              msVars, pcVars, histVars>>

vars == <<plVars, sessVars>>

(***************************************************************************)
(* Arithmetic                                                              *)
(***************************************************************************)

\* Fixed-point resolution standing for Python's float.
FP == 100

\* np.pi, in fixed point.
PiFP == 314

Max(a, b) == IF a >= b THEN a ELSE b

Abs(a) == IF a >= 0 THEN a ELSE 0 - a

RECURSIVE SqrtSearch(_, _, _)
\* The largest r in lo..hi with r * r <= n, by bisection.
SqrtSearch(n, lo, hi) ==
    IF lo >= hi THEN lo
    ELSE LET mid == (lo + hi + 1) \div 2
         IN  IF mid * mid <= n THEN SqrtSearch(n, mid, hi)
             ELSE SqrtSearch(n, lo, mid - 1)

\* Square root of n, rounded down (46340 is the largest root of a 32-bit n).
ISqrt(n) == SqrtSearch(n, 0, IF n > 46340 THEN 46340 ELSE n)

\* Python's int() on a value held in halves: truncation towards zero.
PyInt(h) == IF h >= 0 THEN h \div 2 ELSE 0 - ((0 - h) \div 2)

\* Python's x | 1 on an integer of either sign (two's complement).
BitOr1(x) == IF x % 2 = 0 THEN x + 1 ELSE x

\* A faulty normalization: the '| 1' left out.
NormalizeKernelNoOr(raw) == Max(3, PyInt(raw))

\* max(3, int(raw) | 1)
NormalizeKernel(raw) == Max(3, BitOr1(PyInt(raw)))

(***************************************************************************)
(* Geometry: cv2.arcLength and cv2.contourArea on a list of points         *)
(***************************************************************************)

\* Euclidean distance between two pixel positions, in fixed point.
Dist(a, b) ==
    ISqrt(((a[1] - b[1]) * (a[1] - b[1]) + (a[2] - b[2]) * (a[2] - b[2])) * FP * FP)

RECURSIVE PathLength(_, _)
\* Sum of the distances between consecutive points, from index i on.
PathLength(pts, i) ==
    IF i >= Len(pts) THEN 0
    ELSE Dist(pts[i], pts[i + 1]) + PathLength(pts, i + 1)

\* cv2.arcLength(pts, True): the closing edge is included.
ArcLength(pts) ==
    IF Len(pts) = 0 THEN 0
    ELSE PathLength(pts, 1) + Dist(pts[Len(pts)], pts[1])

RECURSIVE Shoelace(_, _)
\* Sum over the edges (closing edge included) of x_i*y_j - x_j*y_i.
Shoelace(pts, i) ==
    IF i > Len(pts) THEN 0
    ELSE LET a == pts[i]
             b == pts[IF i = Len(pts) THEN 1 ELSE i + 1]
         IN  (a[1] * b[2] - b[1] * a[2]) + Shoelace(pts, i + 1)

\* cv2.contourArea(pts): the absolute shoelace area, in fixed point.
ContourArea(pts) ==
    IF Len(pts) = 0 THEN 0 ELSE (Abs(Shoelace(pts, 1)) * FP) \div 2

(***************************************************************************)
(* Images.  An image is a list of features; a feature is what one          *)
(* connected boundary of the picture looks like to the library stages:     *)
(*   grad      its edge contrast, 0..255                                   *)
(*   detail    the width in pixels of its finest detail                    *)
(*   pts       the contour cv2.findContours returns for it (pixels)        *)
(*   simp      the polygon cv2.approxPolyDP reduces it to once the         *)
(*             tolerance reaches simp_tol (fixed point)                    *)
(***************************************************************************)

Feature(grad, detail, pts, simp, simp_tol) ==
    [grad |-> grad, detail |-> detail, pts |-> pts, simp |-> simp,
     simp_tol |-> simp_tol]

\* A 20x20 square: area 400, perimeter 80.  A coarse tolerance flattens it to
\* its diagonal.
Square2 == Feature(200, 5, <<<<0, 0>>, <<20, 0>>, <<20, 20>>, <<0, 20>>>>,
                   <<<<0, 0>>, <<20, 20>>>>, 300)

\* A 40x10 rectangle: area 400, perimeter 100.
Rect41 == Feature(200, 4, <<<<50, 0>>, <<90, 0>>, <<90, 10>>, <<50, 10>>>>,
                  <<<<50, 0>>, <<90, 10>>>>, 600)

\* A 40x40 square with a bump on one edge (area 1800), which a coarse
\* tolerance removes (area 1600, perimeter 160).
Bumped4 == Feature(100, 9,
                   <<<<0, 50>>, <<20, 40>>, <<40, 50>>, <<40, 90>>, <<0, 90>>>>,
                   <<<<0, 50>>, <<40, 50>>, <<40, 90>>, <<0, 90>>>>, 500)

\* A 30-40-50 triangle (area 600, perimeter 120), which a coarse tolerance
\* collapses to one point.
Triangle == Feature(200, 3, <<<<100, 0>>, <<130, 0>>, <<100, 40>>>>,
                    <<<<100, 0>>>>, 200)

\* A single pixel: a contour of one point, perimeter 0.
Dot == Feature(200, 2, <<<<70, 70>>>>, <<<<70, 70>>>>, 0)

\* A one-pixel-wide line: two points, area 0, perimeter 60.
Line == Feature(200, 3, <<<<0, 120>>, <<30, 120>>>>, <<<<0, 120>>, <<30, 120>>>>, 0)

\* The pictures the operator's directory may hold; the first is blank.
Scenes == << <<>>,
             <<Square2, Dot, Triangle, Line>>,
             <<Line, Bumped4, Rect41>> >>

(***************************************************************************)
(* Library stages, by their contracts                                      *)
(***************************************************************************)

\* cv2.GaussianBlur: detail finer than the kernel loses half its contrast.
GaussianBlur(img, k) ==
    [i \in DOMAIN img |->
        IF img[i].detail < k THEN [img[i] EXCEPT !.grad = img[i].grad \div 2]
        ELSE img[i]]

\* cv2.medianBlur: detail finer than half the window is removed.
MedianBlur(img, k) ==
    [i \in DOMAIN img |->
        IF 2 * img[i].detail < k THEN [img[i] EXCEPT !.grad = 0] ELSE img[i]]

\* cv2.Canny: an edge map holding 255 on the boundaries whose gradient exceeds
\* the upper threshold (the library swaps the thresholds if given reversed)
\* and 0 elsewhere.
Canny(img, low, high) ==
    [i \in DOMAIN img |-> IF img[i].grad > Max(low, high) THEN 255 ELSE 0]

\* A faulty threshold: >= thresh.
ThresholdNonStrict(edges, thresh) ==
    [i \in DOMAIN edges |-> IF edges[i] >= thresh THEN 255 ELSE 0]

\* cv2.threshold(edges, thresh, 255, cv2.THRESH_BINARY): 255 where the pixel
\* is > thresh, else 0.
Threshold(edges, thresh) ==
    [i \in DOMAIN edges |-> IF edges[i] > thresh THEN 255 ELSE 0]

\* cv2.dilate with a d_k x d_k kernel of ones: which boundaries are present
\* does not change.
Dilate(bin, k) == bin

RECURSIVE FindFrom(_, _, _)
FindFrom(img, dilated, i) ==
    IF i > Len(img) THEN <<>>
    ELSE (IF dilated[i] = 255 THEN <<img[i]>> ELSE <<>>) \o FindFrom(img, dilated, i + 1)

\* A faulty contour search: the frame of the picture is returned as a contour
\* of its own, whatever the picture holds.
FindContoursWithFrame(img, dilated) == <<Square2>> \o FindFrom(img, dilated, 1)

\* cv2.findContours(dilated, RETR_EXTERNAL, CHAIN_APPROX_SIMPLE): the contours
\* of the boundaries present, in the library's traversal order.
FindContours(img, dilated) == FindFrom(img, dilated, 1)

\* cv2.approxPolyDP(cnt, epsilon, True)
ApproxPolyDP(cnt, epsilon) == IF epsilon >= cnt.simp_tol THEN cnt.simp ELSE cnt.pts

(***************************************************************************)
(* The parameter dictionary                                                *)
(***************************************************************************)

Params(bt, cl, ch, ep, mc, ma, dk, gk, mk) ==
    [binary_thresh |-> bt, canny_low |-> cl, canny_high |-> ch, epsilon |-> ep,
     min_circ |-> mc, min_area |-> ma, dilation_k |-> dk, gaussian_k |-> gk,
     median_k |-> mk]

\* The argparse defaults of main(): kernels in halves, epsilon, min_circ and
\* min_area in fixed point.
DefaultParams == Params(128, 10, 50, 1, 0, 2500000, 6, 10, 10)

(***************************************************************************)
(* One pass of "for cnt in contours"                                       *)
(***************************************************************************)

\* What one iteration did: kind is "skip_raw", "skip_area", "skip_perimeter",
\* "rejected", "accepted" or "raise" (a ZeroDivisionError); approx_called and
\* epsilon say whether approxPolyDP ran and with what tolerance; divisors are
\* the denominators evaluated; drawn and obj the effects on mask and list.
Outcome(kind, called, eps, approx, divisors, obj) ==
    [kind |-> kind, approx_called |-> called, epsilon |-> eps, approx |-> approx,
     divisors |-> divisors, obj |-> obj]

\* A faulty filter: area >= min_area.
FilterAreaNonStrict(area, circularity, q) ==
    area >= q.min_area /\ circularity >= q.min_circ

\* A faulty filter: the circularity test is turned around.
FilterCircBelow(area, circularity, q) ==
    area > q.min_area /\ circularity <= q.min_circ

\* A faulty filter: the area test is turned around.
FilterAreaBelow(area, circularity, q) ==
    area < q.min_area /\ circularity >= q.min_circ

\* area > p['min_area'] and circularity >= p['min_circ']
Filter(area, circularity, q) ==
    area > q.min_area /\ circularity >= q.min_circ

\* (4 * np.pi * area) / (perimeter ** 2)
Circularity(area, perimeter) == (4 * PiFP * area) \div ((perimeter * perimeter) \div FP)

\* A different ratio: perimeter ** 2 / (4 * pi * area), the inverse of the
\* circularity.
PoreFactorFourPi(area, perimeter) ==
    (perimeter * perimeter) \div ((4 * PiFP * area) \div FP)

\* (perimeter ** 2) / (16 * area)
PoreFactor(area, perimeter) == (perimeter * perimeter) \div (16 * area)

\* A faulty loop body: the three zero tests left out.
ContourOpus25NoGuards(cnt, q) ==
    LET epsilon == (q.epsilon * ArcLength(cnt.pts)) \div FP
        approx == ApproxPolyDP(cnt, epsilon)
        area == ContourArea(approx)
        perimeter == ArcLength(approx)
    IN  IF perimeter = 0
        THEN Outcome("raise", TRUE, epsilon, approx, {perimeter * perimeter}, <<>>)
        ELSE
        LET circularity == Circularity(area, perimeter)
        IN  IF Filter(area, circularity, q)
            THEN Outcome("accepted", TRUE, epsilon, approx,
                         {perimeter * perimeter, 16 * area},
                         <<perimeter, area, circularity, PoreFactor(area, perimeter)>>)
            ELSE Outcome("rejected", TRUE, epsilon, approx,
                         {perimeter * perimeter}, <<>>)

\* A faulty loop body: the measures are taken from the raw contour.
ContourOpus25RawMeasures(cnt, q) ==
    LET perimeter0 == ArcLength(cnt.pts)
    IN  IF perimeter0 = 0 THEN Outcome("skip_raw", FALSE, 0, <<>>, {}, <<>>)
        ELSE
        LET epsilon == (q.epsilon * perimeter0) \div FP
            approx == ApproxPolyDP(cnt, epsilon)
            area == ContourArea(cnt.pts)
        IN  IF area = 0 THEN Outcome("skip_area", TRUE, epsilon, approx, {}, <<>>)
            ELSE
            LET circularity == Circularity(area, perimeter0)
            IN  IF Filter(area, circularity, q)
                THEN Outcome("accepted", TRUE, epsilon, approx,
                             {perimeter0 * perimeter0, 16 * area},
                             <<perimeter0, area, circularity,
                               PoreFactor(area, perimeter0)>>)
                ELSE Outcome("rejected", TRUE, epsilon, approx,
                             {perimeter0 * perimeter0}, <<>>)

\* A faulty loop body: the test of the raw perimeter left out.
ContourOpus25NoRawGuard(cnt, q) ==
    LET epsilon == (q.epsilon * ArcLength(cnt.pts)) \div FP
        approx == ApproxPolyDP(cnt, epsilon)
        area == ContourArea(approx)
    IN  IF area = 0 THEN Outcome("skip_area", TRUE, epsilon, approx, {}, <<>>)
        ELSE
        LET perimeter == ArcLength(approx)
        IN  IF perimeter = 0
            THEN Outcome("skip_perimeter", TRUE, epsilon, approx, {}, <<>>)
            ELSE
            LET circularity == Circularity(area, perimeter)
            IN  IF Filter(area, circularity, q)
                THEN Outcome("accepted", TRUE, epsilon, approx,
                             {perimeter * perimeter, 16 * area},
                             <<perimeter, area, circularity,
                               PoreFactor(area, perimeter)>>)
                ELSE Outcome("rejected", TRUE, epsilon, approx,
                             {perimeter * perimeter}, <<>>)

\* PoreAnalyzer._process_image, the body of the loop over the contours.
ContourOpus25(cnt, q) ==
    LET perimeter0 == ArcLength(cnt.pts)
    IN  IF perimeter0 = 0 THEN Outcome("skip_raw", FALSE, 0, <<>>, {}, <<>>)
        ELSE
        LET epsilon == (q.epsilon * perimeter0) \div FP
            approx == ApproxPolyDP(cnt, epsilon)
            area == ContourArea(approx)
        IN  IF area = 0 THEN Outcome("skip_area", TRUE, epsilon, approx, {}, <<>>)
            ELSE
            LET perimeter == ArcLength(approx)
            IN  IF perimeter = 0
                THEN Outcome("skip_perimeter", TRUE, epsilon, approx, {}, <<>>)
                ELSE
                LET circularity == Circularity(area, perimeter)
                IN  IF Filter(area, circularity, q)
                    THEN Outcome("accepted", TRUE, epsilon, approx,
                                 {perimeter * perimeter} \cup
                                     (IF area > 0 THEN {16 * area} ELSE {}),
                                 <<perimeter, area, circularity,
                                   IF area > 0 THEN PoreFactor(area, perimeter)
                                   ELSE 0>>)
                    ELSE Outcome("rejected", TRUE, epsilon, approx,
                                 {perimeter * perimeter}, <<>>)

\* process_image of the older script, the body of the loop over the contours.
ContourLegacy(cnt, q) ==
    LET epsilon_dynamic == (q.epsilon * ArcLength(cnt.pts)) \div FP
        approx_contour == ApproxPolyDP(cnt, epsilon_dynamic)
        area == ContourArea(approx_contour)
        perimeter == ArcLength(approx_contour)
    IN  IF area = 0
        THEN Outcome("skip_area", TRUE, epsilon_dynamic, approx_contour, {}, <<>>)
        ELSE
        IF perimeter = 0
        THEN Outcome("raise", TRUE, epsilon_dynamic, approx_contour,
                     {16 * area, perimeter * perimeter}, <<>>)
        ELSE
        LET pore_factor == PoreFactor(area, perimeter)
            circularity == Circularity(area, perimeter)
        IN  IF Filter(area, circularity, q)
            THEN Outcome("accepted", TRUE, epsilon_dynamic, approx_contour,
                         {16 * area, perimeter * perimeter},
                         <<perimeter, area, pore_factor>>)
            ELSE Outcome("rejected", TRUE, epsilon_dynamic, approx_contour,
                         {16 * area, perimeter * perimeter}, <<>>)

ProcessContour(v, cnt, q) ==
    IF v = "opus25" THEN ContourOpus25(cnt, q) ELSE ContourLegacy(cnt, q)

(***************************************************************************)
(* The pipeline as a function: PoreAnalyzer._process_image                 *)
(***************************************************************************)

\* The stages before the loop: kernel normalization, the two blurs, Canny,
\* threshold, dilation and findContours.
ExtractContours(img, q) ==
    LET gk == NormalizeKernel(q.gaussian_k)
        mk == NormalizeKernel(q.median_k)
        dk == NormalizeKernel(q.dilation_k)
        blurred == MedianBlur(GaussianBlur(img, gk), mk)
        edges == Canny(blurred, q.canny_low, q.canny_high)
        bin == Threshold(edges, q.binary_thresh)
        dilated == Dilate(bin, dk)
    IN  FindContours(img, dilated)

RECURSIVE LoopOverPrepend(_, _, _, _)
\* A faulty loop: an accepted object is put at the head of the list.
LoopOverPrepend(cs, q, i, acc) ==
    IF i > Len(cs) THEN acc
    ELSE LET out == ContourOpus25(cs[i], q)
         IN  LoopOverPrepend(cs, q, i + 1,
                             IF out.kind = "accepted"
                             THEN [mask |-> acc.mask \cup {out.approx},
                                   objects |-> <<out.obj>> \o acc.objects]
                             ELSE acc)

RECURSIVE LoopOver(_, _, _, _)
\* "for cnt in contours" from contour i on; acc is the mask and list so far.
LoopOver(cs, q, i, acc) ==
    IF i > Len(cs) THEN acc
    ELSE LET out == ContourOpus25(cs[i], q)
         IN  LoopOver(cs, q, i + 1,
                      IF out.kind = "accepted"
                      THEN [mask |-> acc.mask \cup {out.approx},
                            objects |-> Append(acc.objects, out.obj)]
                      ELSE acc)

\* _process_image(p): (filtered_image, object_data), from a zero mask and an
\* empty list.
ProcessImage(img, q) ==
    LoopOver(ExtractContours(img, q), q, 1, [mask |-> {}, objects |-> <<>>])

(***************************************************************************)
(* The input directory, the output files, the console                      *)
(***************************************************************************)

\* How many images the input directory holds.
NumImages == 3

\* How many slider moves and clicks the operator makes in one session.
MaxEdits == 2

\* The i-th file of the directory in sorted order, as <<stem, suffix>>:
\* 1.jpg, 1.png, 2.jpg, 2.png, ...
FileAt(i) == <<(i + 1) \div 2, IF i % 2 = 1 THEN "jpg" ELSE "png">>

FileIndex(f) == 2 * f[1] - (IF f[2] = "jpg" THEN 1 ELSE 0)

\* sorted([p for p in input_dir.iterdir() if p.suffix.lower() in supported])
SortedImageFiles == [i \in 1..NumImages |-> FileAt(i)]

\* What is in a file that decodes.
SceneOf(f) == Scenes[(FileIndex(f) % 3) + 1]

NoImage == [ok |-> FALSE, img |-> <<>>]

\* cv2.imread(path, cv2.IMREAD_GRAYSCALE): None when the file does not decode.
Imread(f) == IF f \in unreadable THEN NoImage ELSE [ok |-> TRUE, img |-> SceneOf(f)]

Readable(f) == f \notin unreadable

\* A file written (created or overwritten) with the given content.
Write(d, path, content) ==
    [x \in DOMAIN d \cup {path} |-> IF x = path THEN content ELSE d[x]]

NoPath == <<0, "">>

\* The directories each __init__ makes: output_dir with its two
\* subdirectories (mkdir(parents=True)), or output_dir alone (os.makedirs).
OutputDirs(t) ==
    CASE t = "PoreAnalyzer" -> {"output_dir", "processed_images", "data"}
      [] t = "ManualSegmenter" -> {"output_dir", "annotated_images", "data"}
      [] t = "PixelCalibrator" -> {"output_dir"}
      [] OTHER -> {}

PipelineIdle ==
    /\ variant = "opus25" /\ pc = "idle" /\ p = DefaultParams /\ image = <<>>
    /\ g_k = 0 /\ m_k = 0 /\ d_k = 0 /\ binary = <<>> /\ contours = <<>>
    /\ ci = 1 /\ filtered_image = {} /\ object_list = <<>> /\ trace = <<>>

\* No measurement on its own is going on.
NoCalc == [kind |-> "none"]

NoSession ==
    /\ tool = "none" /\ phase = "done" /\ image_files = <<>> /\ unreadable = {}
    /\ input_dir = "images" /\ dirs = {} /\ memo = <<>> /\ drawing = FALSE
    /\ disk = <<>> /\ console = {} /\ img_i = 0 /\ current_image_path = NoPath
    /\ params = DefaultParams /\ original_image = NoImage
    /\ processed_image = {} /\ object_data = <<>> /\ sliders = <<>>
    /\ shown = <<>> /\ last = "init" /\ disk_at_open = <<>>
    /\ data_at_open = <<>> /\ abandoned = {} /\ edits = 0
    /\ all_shapes_data = <<>> /\ shapes_on_current_image = <<>>
    /\ current_points = <<>> /\ current_image_index = 0 /\ points = <<>>
    /\ distance_results = <<>> /\ define_point_active = FALSE

SessionIdle == NoSession /\ calc = NoCalc

\* What a session starts from, whatever the tool: the directory listed and
\* sorted, nothing written, nothing printed.
InitSession ==
    /\ PipelineIdle
    /\ input_dir = "images"
    /\ calc = NoCalc
    /\ drawing = FALSE
    /\ memo = <<>>
    /\ image_files = SortedImageFiles
    /\ unreadable \in SUBSET {FileAt(i) : i \in 1..NumImages}
    /\ phase = "loop"
    /\ disk = <<>>
    /\ console = {}
    /\ img_i = 0
    /\ current_image_path = NoPath
    /\ shown = <<>> /\ last = "init" /\ disk_at_open = <<>>
    /\ data_at_open = <<>> /\ abandoned = {} /\ edits = 0

PoreAnalyzerIdle ==
    /\ params = DefaultParams /\ original_image = NoImage
    /\ processed_image = {} /\ object_data = <<>> /\ sliders = <<>>

ManualSegmenterIdle ==
    /\ all_shapes_data = <<>> /\ shapes_on_current_image = <<>>
    /\ current_points = <<>>

PixelCalibratorIdle ==
    /\ current_image_index = 0 /\ points = <<>> /\ distance_results = <<>>
    /\ define_point_active = FALSE

(***************************************************************************)
(* PoreAnalyzer                                                            *)
(***************************************************************************)

SliderNames == {"binary_thresh", "canny_low", "canny_high", "epsilon", "min_circ",
                "min_area", "dilation_k", "gaussian_k", "median_k"}

\* The Slider(...) calls of _create_widgets: valmin, valmax, valstep (0: none),
\* in the units the parameters are held in.
SliderDef(name) ==
    CASE name \in {"binary_thresh", "canny_low", "canny_high"} ->
             [valmin |-> 0, valmax |-> 255, valstep |-> 1]
      [] name = "epsilon" -> [valmin |-> 0, valmax |-> 5, valstep |-> 0]
      [] name = "min_circ" -> [valmin |-> 0, valmax |-> 100, valstep |-> 0]
      [] name = "min_area" -> [valmin |-> 0, valmax |-> 10000000, valstep |-> 10000]
      [] name = "dilation_k" -> [valmin |-> 2, valmax |-> 222, valstep |-> 4]
      [] OTHER -> [valmin |-> 2, valmax |-> 402, valstep |-> 4]

\* Slider._stepped_value: the nearest multiple of valstep above valmin, a tie
\* going to the even multiple.
SteppedValue(val, def) ==
    IF def.valstep = 0 THEN val
    ELSE LET d == val - def.valmin
             q == d \div def.valstep
             r == d % def.valstep
             n == IF 2 * r < def.valstep THEN q
                  ELSE IF 2 * r > def.valstep THEN q + 1
                  ELSE IF q % 2 = 0 THEN q ELSE q + 1
         IN  def.valmin + n * def.valstep

\* Slider._value_in_bounds, which Slider.__init__ applies to valinit.
ValueInBounds(val, def) ==
    LET v == SteppedValue(val, def)
    IN  IF v <= def.valmin THEN def.valmin
        ELSE IF v >= def.valmax THEN def.valmax ELSE v

\* Faulty widgets: the sliders of the previous image are kept.
CreateWidgetsKeepOld(prm) ==
    IF DOMAIN sliders = SliderNames THEN sliders
    ELSE [name \in SliderNames |-> ValueInBounds(prm[name], SliderDef(name))]

\* _create_widgets: every slider is made anew, with valinit from self.params.
CreateWidgets(prm) ==
    [name \in SliderNames |-> ValueInBounds(prm[name], SliderDef(name))]

\* A faulty preview: computed from self.params, not from the sliders.
UpdatePlotFromParams(img, sl) == ProcessImage(img, params)

\* A faulty preview: the new pass draws into the mask on screen and appends
\* to the list on screen.
UpdatePlotIncremental(img, sl) ==
    [mask |-> processed_image \cup ProcessImage(img, sl).mask,
     objects |-> object_data \o ProcessImage(img, sl).objects]

\* _update_plot: current_params is read off the sliders and handed to
\* _process_image.
UpdatePlot(img, sl) == ProcessImage(img, sl)

\* A faulty table: the filename column left empty.
RecordsUntagged(name, od) == [j \in DOMAIN od |-> <<NoPath>> \o od[j]]

\* The DataFrame of _save_and_close: one row per object, in order, with the
\* filename inserted as the first column.
Records(name, od) == [j \in DOMAIN od |-> <<name>> \o od[j]]

MaskPath(f) == <<"processed_images", f[1], "_processed.png">>

DataPath(f) == <<"data", f[1], "_data.xlsx">>

\* A baseline on the sliders' grid, and one as a command line may give it,
\* off the grid (gaussian_k 4, min_area 360).
Baselines == {Params(128, 10, 50, 1, 0, 40000, 6, 10, 6),
              Params(128, 10, 50, 1, 0, 36000, 6, 8, 6)}

\* The positions the operator drags a slider to.
SliderChoices(name) ==
    CASE name = "binary_thresh" -> {128, 255}
      [] name = "canny_high" -> {50, 150}
      [] name = "min_circ" -> {0, 52}
      [] name = "min_area" -> {0, 40000}
      [] name = "gaussian_k" -> {6, 10}
      [] name = "canny_low" -> {10}
      [] name = "epsilon" -> {1}
      [] OTHER -> {6}

InitPoreAnalyzer ==
    /\ InitSession
    /\ tool = "PoreAnalyzer"
    /\ dirs = OutputDirs("PoreAnalyzer")
    /\ params \in Baselines
    /\ original_image = NoImage
    /\ processed_image = {}
    /\ object_data = <<>>
    /\ sliders = <<>>
    /\ ManualSegmenterIdle
    /\ PixelCalibratorIdle

\* run(): the next turn of the loop.  An unreadable image is skipped with a
\* warning; otherwise _create_interactive_window makes the widgets, runs
\* _update_plot once and blocks in plt.show().
PARunNext ==
    /\ tool = "PoreAnalyzer" /\ phase = "loop"
    /\ img_i < Len(image_files)
    /\ img_i' = img_i + 1
    /\ current_image_path' = image_files[img_i + 1]
    /\ original_image' = Imread(image_files[img_i + 1])
    /\ IF ~original_image'.ok
       THEN /\ console' = console \cup {<<"Warning: Could not read", image_files[img_i + 1]>>}
            /\ last' = "skip"
            /\ UNCHANGED <<phase, sliders, processed_image, object_data, shown,
                           disk_at_open, data_at_open, memo>>
       ELSE /\ sliders' = CreateWidgets(params)
            /\ LET r == UpdatePlot(original_image'.img, sliders')
               IN  /\ processed_image' = r.mask /\ object_data' = r.objects
                   /\ memo' = (sliders' :> r)
            /\ phase' = "show"
            /\ shown' = Append(shown, image_files[img_i + 1])
            /\ last' = "open"
            /\ disk_at_open' = disk
            /\ data_at_open' = <<>>
            /\ UNCHANGED console
    /\ UNCHANGED <<tool, image_files, unreadable, input_dir, drawing, dirs, calc, disk,
                   params, abandoned, edits, msVars, pcVars, plVars>>

\* run(): the loop is over.
PARunEnd ==
    /\ tool = "PoreAnalyzer" /\ phase = "loop"
    /\ img_i = Len(image_files)
    /\ phase' = "done"
    /\ console' = console \cup {<<"All images processed", NoPath>>}
    /\ last' = "end"
    /\ UNCHANGED <<envVars, disk, img_i, current_image_path, paVars, shown,
                   disk_at_open, data_at_open, abandoned, edits, msVars, pcVars, plVars>>

\* A slider is moved: its on_changed callback is _update_plot.
PASliderChanged(name, v) ==
    /\ tool = "PoreAnalyzer" /\ phase = "show"
    /\ edits < MaxEdits
    /\ v # sliders[name]
    /\ sliders' = [sliders EXCEPT ![name] = v]
    /\ LET r == UpdatePlot(original_image.img, sliders')
       IN  /\ processed_image' = r.mask /\ object_data' = r.objects
           /\ memo' = IF sliders' \in DOMAIN memo THEN memo
                      ELSE memo @@ (sliders' :> r)
    /\ edits' = edits + 1
    /\ last' = "edit"
    /\ UNCHANGED <<tool, image_files, unreadable, input_dir, drawing, dirs, calc, phase,
                   disk, console, img_i, current_image_path,
                   params, original_image, shown, disk_at_open, data_at_open,
                   abandoned, msVars, pcVars, plVars>>

\* 'Save & Next': _save_and_close writes the mask, writes the table unless the
\* list is empty, and closes the figure, which ends plt.show().
PASaveAndClose ==
    /\ tool = "PoreAnalyzer" /\ phase = "show"
    /\ LET withMask == Write(disk, MaskPath(current_image_path), processed_image)
       IN  disk' = IF object_data # <<>>
                   THEN Write(withMask, DataPath(current_image_path),
                              Records(current_image_path, object_data))
                   ELSE withMask
    /\ console' = console \cup {<<"Saving results for", current_image_path>>}
    /\ phase' = "loop"
    /\ last' = "save"
    /\ UNCHANGED <<envVars, img_i, current_image_path, paVars, shown,
                   disk_at_open, data_at_open, abandoned, edits, msVars, pcVars, plVars>>

\* The operator closes the window without saving: plt.show() returns.
PACloseWindow ==
    /\ tool = "PoreAnalyzer" /\ phase = "show"
    /\ phase' = "loop"
    /\ last' = "close"
    /\ abandoned' = abandoned \cup {current_image_path}
    /\ UNCHANGED <<envVars, disk, console, img_i, current_image_path, paVars,
                   shown, disk_at_open, data_at_open, edits, msVars, pcVars,
                   plVars>>

NextPoreAnalyzer ==
    \/ PARunNext
    \/ PARunEnd
    \/ \E name \in SliderNames : \E v \in SliderChoices(name) : PASliderChanged(name, v)
    \/ PASaveAndClose
    \/ PACloseWindow

SpecPoreAnalyzer == InitPoreAnalyzer /\ [][NextPoreAnalyzer]_vars

(***************************************************************************)
(* ManualSegmenter                                                         *)
(***************************************************************************)

\* How many state-changing mouse clicks the operator makes in one session.
MaxClicks == 8

\* 1 / resize_factor, for the default --resize-factor 0.25.
ResizeDen == 4

\* Where the operator puts the next vertex of a shape that has n vertices so
\* far, in display pixels: the shapes drawn are a triangle, a taller triangle,
\* or three points on one line.
ClickPoints(n) ==
    CASE n = 0 -> {<<0, 0>>}
      [] n = 1 -> {<<4, 0>>}
      [] n = 2 -> {<<4, 4>>, <<4, 8>>, <<8, 0>>}
      [] OTHER -> {}

\* shapely: Polygon(shape_points).length and .area
PolygonLength(shape_points) == ArcLength(shape_points)

PolygonArea(shape_points) == ContourArea(shape_points)

\* The record of one shape drawn at resize_factor = num/den.
ShapeRecordAt(name, shape_points, num, den) ==
    LET perimeter == (PolygonLength(shape_points) * den) \div num
        area == (PolygonArea(shape_points) * den * den) \div (num * num)
    IN  <<name, perimeter, area, PoreFactor(area, perimeter)>>

\* The sessions run at the default resize_factor, 0.25.
ShapeRecord(name, shape_points) == ShapeRecordAt(name, shape_points, 1, ResizeDen)

\* A faulty save loop: records are inserted at the front of the list.
RECURSIVE SaveLoopInsertFront(_, _, _, _)
SaveLoopInsertFront(acc, name, shapes, i) ==
    IF i > Len(shapes) THEN acc
    ELSE SaveLoopInsertFront(
             IF PolygonArea(shapes[i]) > 0
             THEN <<ShapeRecord(name, shapes[i])>> \o acc ELSE acc,
             name, shapes, i + 1)

RECURSIVE SaveLoop(_, _, _, _)
\* The loop of _save_and_close: for each shape in drawing order, a record is
\* appended to all_shapes_data if the shape's area is positive.
SaveLoop(acc, name, shapes, i) ==
    IF i > Len(shapes) THEN acc
    ELSE SaveLoop(IF PolygonArea(shapes[i]) > 0
                  THEN Append(acc, ShapeRecord(name, shapes[i])) ELSE acc,
                  name, shapes, i + 1)

\* f"{today_str}_{stem}.png" under annotated_images
FigPath(f) == <<"annotated_images", f[1], "today.png">>

ExportPath == <<"data", 0, "today_pore_factor_analysis.xlsx">>

\* A faulty export: the table is written even when the list is empty.
ExportResultsAlways(d, acc) == Write(d, ExportPath, acc)

\* _export_results when to_excel succeeds: nothing for an empty list, else
\* the whole list written to the one table.
ExportResults(d, acc) == IF acc = <<>> THEN d ELSE Write(d, ExportPath, acc)

InitManualSegmenter ==
    /\ InitSession
    /\ tool = "ManualSegmenter"
    /\ dirs = OutputDirs("ManualSegmenter")
    /\ PoreAnalyzerIdle
    /\ ManualSegmenterIdle
    /\ PixelCalibratorIdle

\* run(): the next turn of the loop, into _process_image.  Image.open raises
\* on a file that does not decode; nothing in run() catches it, so it leaves
\* run() and reaches the except clause of main().
MSRunNext ==
    /\ tool = "ManualSegmenter" /\ phase = "loop"
    /\ img_i < Len(image_files)
    /\ img_i' = img_i + 1
    /\ current_image_path' = image_files[img_i + 1]
    /\ shapes_on_current_image' = <<>>
    /\ current_points' = <<>>
    /\ IF ~Readable(image_files[img_i + 1])
       THEN /\ phase' = "aborted"
            /\ console' = console \cup {<<"An unexpected error occurred", image_files[img_i + 1]>>}
            /\ last' = "raise"
            /\ UNCHANGED <<shown, disk_at_open, data_at_open>>
       ELSE /\ phase' = "show"
            /\ shown' = Append(shown, image_files[img_i + 1])
            /\ last' = "open"
            /\ disk_at_open' = disk
            /\ data_at_open' = all_shapes_data
            /\ UNCHANGED console
    /\ UNCHANGED <<envVars, disk, all_shapes_data, abandoned, edits, paVars,
                   pcVars, plVars>>

\* A faulty click handler: a right click closes a shape from two vertices on.
MSOnClickCloseTwo(inaxes, button, pt) ==
    /\ tool = "ManualSegmenter" /\ phase = "show"
    /\ IF inaxes /\ button = 1 /\ edits < MaxClicks
       THEN /\ current_points' = Append(current_points, pt)
            /\ edits' = edits + 1
            /\ last' = "click"
            /\ UNCHANGED shapes_on_current_image
       ELSE IF inaxes /\ button = 3 /\ Len(current_points) >= 2 /\ edits < MaxClicks
       THEN /\ shapes_on_current_image' =
                   Append(shapes_on_current_image,
                          Append(current_points, current_points[1]))
            /\ current_points' = <<>>
            /\ edits' = edits + 1
            /\ last' = "click"
       ELSE UNCHANGED <<shapes_on_current_image, current_points, edits, last>>
    /\ UNCHANGED <<envVars, phase, disk, console, img_i, current_image_path,
                   all_shapes_data, shown, disk_at_open, data_at_open,
                   abandoned, paVars, pcVars, plVars>>

\* _on_click: a left click adds a vertex, a right click with three or more
\* vertices closes the shape; anything else is ignored.
MSOnClick(inaxes, button, pt) ==
    /\ tool = "ManualSegmenter" /\ phase = "show"
    /\ IF inaxes /\ button = 1 /\ edits < MaxClicks
       THEN /\ current_points' = Append(current_points, pt)
            /\ edits' = edits + 1
            /\ last' = "click"
            /\ UNCHANGED shapes_on_current_image
       ELSE IF inaxes /\ button = 3 /\ Len(current_points) >= 3 /\ edits < MaxClicks
       THEN /\ shapes_on_current_image' =
                   Append(shapes_on_current_image,
                          Append(current_points, current_points[1]))
            /\ current_points' = <<>>
            /\ edits' = edits + 1
            /\ last' = "click"
       ELSE UNCHANGED <<shapes_on_current_image, current_points, edits, last>>
    /\ UNCHANGED <<envVars, phase, disk, console, img_i, current_image_path,
                   all_shapes_data, shown, disk_at_open, data_at_open,
                   abandoned, paVars, pcVars, plVars>>

\* A faulty 'Clear Shapes': the polygon in progress is left as it is.
MSClearShapesKeepsProgress ==
    /\ tool = "ManualSegmenter" /\ phase = "show"
    /\ shapes_on_current_image' = <<>>
    /\ console' = console \cup {<<"Clearing all shapes", NoPath>>}
    /\ last' = "clear"
    /\ UNCHANGED <<envVars, phase, disk, img_i, current_image_path,
                   all_shapes_data, current_points, shown, disk_at_open,
                   data_at_open, abandoned, edits, paVars, pcVars, plVars>>

\* 'Clear Shapes'
MSClearShapes ==
    /\ tool = "ManualSegmenter" /\ phase = "show"
    /\ shapes_on_current_image' = <<>>
    /\ current_points' = <<>>
    /\ console' = console \cup {<<"Clearing all shapes", NoPath>>}
    /\ last' = "clear"
    /\ UNCHANGED <<envVars, phase, disk, img_i, current_image_path,
                   all_shapes_data, shown, disk_at_open, data_at_open,
                   abandoned, edits, paVars, pcVars, plVars>>

\* 'Save & Next': _save_and_close computes a record for every shape drawn,
\* saves the figure as it is on screen and closes it.
MSSaveAndClose ==
    /\ tool = "ManualSegmenter" /\ phase = "show"
    /\ all_shapes_data' = SaveLoop(all_shapes_data, current_image_path,
                                   shapes_on_current_image, 1)
    /\ disk' = Write(disk, FigPath(current_image_path),
                     <<current_image_path, shapes_on_current_image, current_points>>)
    /\ console' = console \cup {<<"Saving shapes for", current_image_path>>}
    /\ phase' = "loop"
    /\ last' = "save"
    /\ UNCHANGED <<envVars, img_i, current_image_path, shapes_on_current_image,
                   current_points, shown, disk_at_open, data_at_open, abandoned,
                   edits, paVars, pcVars, plVars>>

\* A faulty close: the records of the drawn shapes are accumulated anyway.
MSCloseWindowSaves ==
    /\ tool = "ManualSegmenter" /\ phase = "show"
    /\ all_shapes_data' = SaveLoop(all_shapes_data, current_image_path,
                                   shapes_on_current_image, 1)
    /\ phase' = "loop"
    /\ last' = "close"
    /\ abandoned' = abandoned \cup {current_image_path}
    /\ UNCHANGED <<envVars, disk, console, img_i, current_image_path,
                   shapes_on_current_image, current_points, shown, disk_at_open,
                   data_at_open, edits, paVars, pcVars, plVars>>

\* The operator closes the window without saving: plt.show() returns.
MSCloseWindow ==
    /\ tool = "ManualSegmenter" /\ phase = "show"
    /\ phase' = "loop"
    /\ last' = "close"
    /\ abandoned' = abandoned \cup {current_image_path}
    /\ UNCHANGED <<envVars, disk, console, img_i, current_image_path, msVars,
                   shown, disk_at_open, data_at_open, edits, paVars, pcVars,
                   plVars>>

\* run(): after the loop, _export_results writes the whole list to one table,
\* or only prints a message when the list is empty.  A failing to_excel is not
\* caught in the class: it leaves run().
MSRunEnd(excel_ok) ==
    /\ tool = "ManualSegmenter" /\ phase = "loop"
    /\ img_i = Len(image_files)
    /\ IF all_shapes_data = <<>>
       THEN /\ console' = console \cup {<<"No shapes were drawn to export.", NoPath>>,
                                        <<"All images processed", NoPath>>}
            /\ phase' = "done"
            /\ last' = "end"
            /\ disk' = ExportResults(disk, all_shapes_data)
       ELSE IF excel_ok
       THEN /\ disk' = ExportResults(disk, all_shapes_data)
            /\ console' = console \cup {<<"Successfully exported all data", NoPath>>,
                                        <<"All images processed", NoPath>>}
            /\ phase' = "done"
            /\ last' = "end"
       ELSE /\ console' = console \cup {<<"An unexpected error occurred", NoPath>>}
            /\ phase' = "aborted"
            /\ last' = "export_failed"
            /\ UNCHANGED disk
    /\ UNCHANGED <<envVars, img_i, current_image_path, msVars, shown,
                   disk_at_open, data_at_open, abandoned, edits, paVars, pcVars,
                   plVars>>

NextManualSegmenter ==
    \/ MSRunNext
    \/ \E inaxes \in BOOLEAN : \E button \in {1, 3} :
          \E pt \in (IF button = 1 THEN ClickPoints(Len(current_points))
                     ELSE {<<0, 0>>}) : MSOnClick(inaxes, button, pt)
    \/ MSClearShapes
    \/ MSSaveAndClose
    \/ MSCloseWindow
    \/ \E excel_ok \in BOOLEAN : MSRunEnd(excel_ok)

SpecManualSegmenter == InitManualSegmenter /\ [][NextManualSegmenter]_vars

\* Free-hand drawing: the operator presses any of the three mouse buttons,
\* either on the next corner of a triangle or once more where the last vertex
\* was put, with at most MaxRing vertices in progress and MaxDraw effective
\* presses in a session.
MaxRing == 3

MaxDraw == 5

DrawPoints == {<<0, 0>>, <<4, 0>>, <<4, 4>>}

DrawChoices(pts) ==
    {IF pts = <<>> THEN <<0, 0>> ELSE IF Len(pts) = 1 THEN <<4, 0>> ELSE <<4, 4>>}
        \cup (IF pts = <<>> THEN {} ELSE {pts[Len(pts)]})

NextDraw ==
    \/ MSRunNext
    \/ \E inaxes \in BOOLEAN : \E button \in {1, 2, 3} :
       \E pt \in DrawChoices(current_points) :
          /\ button = 1 => Len(current_points) < MaxRing
          /\ edits < MaxDraw
          /\ MSOnClick(inaxes, button, pt)
    \/ MSClearShapes
    \/ MSSaveAndClose
    \/ MSCloseWindow
    \/ \E excel_ok \in BOOLEAN : MSRunEnd(excel_ok)

SpecDraw == InitManualSegmenter /\ [][NextDraw]_vars

(***************************************************************************)
(* PixelCalibrator                                                         *)
(***************************************************************************)

\* Where the operator clicks on the image.
CalibrationPoints == {<<0, 0>>, <<3, 4>>}

\* self.output_file: f"{today_str}_pixel_distances.xlsx" in the output directory
OutputFile == <<"", 0, "today_pixel_distances.xlsx">>

\* A faulty flush: the list is added behind what the file already holds.
SaveToExcelAppendWhole(d, results, excel_ok) ==
    IF results = <<>> \/ ~excel_ok THEN d
    ELSE Write(d, OutputFile,
               (IF OutputFile \in DOMAIN d THEN d[OutputFile] ELSE <<>>) \o results)

\* A faulty flush: only the newest record is added to the file.
SaveToExcelNewRecordOnly(d, results, excel_ok) ==
    IF results = <<>> \/ ~excel_ok THEN d
    ELSE Write(d, OutputFile,
               Append(IF OutputFile \in DOMAIN d THEN d[OutputFile] ELSE <<>>,
                      results[Len(results)]))

\* _save_to_excel: nothing for an empty list; else the whole list is written
\* to self.output_file, and a failing to_excel is caught and printed.
SaveToExcel(d, results, excel_ok) ==
    IF results = <<>> THEN d
    ELSE IF excel_ok THEN Write(d, OutputFile, results) ELSE d

\* A faulty loader: the first unreadable image ends the session.
RECURSIVE LoadNextImageStopAtUnreadable(_, _)
LoadNextImageStopAtUnreadable(index, out) ==
    IF index >= Len(image_files)
    THEN [index |-> index, console |-> out \cup {<<"All images processed", NoPath>>},
          closed |-> TRUE]
    ELSE IF ~Imread(image_files[index + 1]).ok
    THEN [index |-> Len(image_files),
          console |-> out \cup {<<"Warning: Could not read", image_files[index + 1]>>},
          closed |-> TRUE]
    ELSE [index |-> index, console |-> out, closed |-> FALSE]

RECURSIVE LoadNextImage(_, _)
\* _load_next_image, with current_image_index = index on entry: past the end
\* the figure is closed; an unreadable image gets a warning, the index moves
\* on and the method calls itself; a readable one is put on screen.
LoadNextImage(index, out) ==
    IF index >= Len(image_files)
    THEN [index |-> index, console |-> out \cup {<<"All images processed", NoPath>>},
          closed |-> TRUE]
    ELSE IF ~Imread(image_files[index + 1]).ok
    THEN LoadNextImage(index + 1,
             out \cup {<<"Warning: Could not read", image_files[index + 1]>>})
    ELSE [index |-> index, console |-> out, closed |-> FALSE]

InitPixelCalibrator ==
    /\ InitSession
    /\ tool = "PixelCalibrator"
    /\ dirs = OutputDirs("PixelCalibrator")
    /\ PoreAnalyzerIdle
    /\ ManualSegmenterIdle
    /\ PixelCalibratorIdle

\* A faulty loader: the cursor is not moved on, so a commit is followed by
\* the image just committed.
PCLoadSameImage(index, out) ==
    LET r == LoadNextImage(IF index > 0 THEN index - 1 ELSE index, out)
    IN  /\ current_image_index' = r.index
        /\ console' = r.console
        /\ IF r.closed
           THEN /\ phase' = "done"
                /\ UNCHANGED <<points, define_point_active, shown,
                               current_image_path, disk_at_open, data_at_open>>
           ELSE /\ phase' = "show"
                /\ points' = <<>>
                /\ define_point_active' = FALSE
                /\ shown' = Append(shown, image_files[r.index + 1])
                /\ current_image_path' = image_files[r.index + 1]
                /\ disk_at_open' = disk'
                /\ data_at_open' = distance_results'

\* A faulty loader: past the end the figure is left open.
PCLoadStaysOpen(index, out) ==
    LET r == LoadNextImage(index, out)
    IN  /\ current_image_index' = r.index
        /\ console' = r.console
        /\ phase' = "show"
        /\ IF r.closed
           THEN UNCHANGED <<points, define_point_active, shown,
                            current_image_path, disk_at_open, data_at_open>>
           ELSE /\ points' = <<>>
                /\ define_point_active' = FALSE
                /\ shown' = Append(shown, image_files[r.index + 1])
                /\ current_image_path' = image_files[r.index + 1]
                /\ disk_at_open' = disk'
                /\ data_at_open' = distance_results'

\* A faulty loader: the points and the define flag are carried over to the
\* next image.
PCLoadKeepsPoints(index, out) ==
    LET r == LoadNextImage(index, out)
    IN  /\ current_image_index' = r.index
        /\ console' = r.console
        /\ UNCHANGED <<points, define_point_active>>
        /\ IF r.closed
           THEN /\ phase' = "done"
                /\ UNCHANGED <<shown, current_image_path, disk_at_open, data_at_open>>
           ELSE /\ phase' = "show"
                /\ shown' = Append(shown, image_files[r.index + 1])
                /\ current_image_path' = image_files[r.index + 1]
                /\ disk_at_open' = disk'
                /\ data_at_open' = distance_results'

\* The effect of one call of _load_next_image on the session, from
\* current_image_index = index and the messages printed so far in out.
PCLoad(index, out) ==
    LET r == LoadNextImage(index, out)
    IN  /\ current_image_index' = r.index
        /\ console' = r.console
        /\ IF r.closed
           THEN /\ phase' = "done"
                /\ UNCHANGED <<points, define_point_active, shown,
                               current_image_path, disk_at_open, data_at_open>>
           ELSE /\ phase' = "show"
                /\ points' = <<>>
                /\ define_point_active' = FALSE
                /\ shown' = Append(shown, image_files[r.index + 1])
                /\ current_image_path' = image_files[r.index + 1]
                /\ disk_at_open' = disk'
                /\ data_at_open' = distance_results'

\* run(): _setup_ui, the first _load_next_image, then plt.show().
PCRun ==
    /\ tool = "PixelCalibrator" /\ phase = "loop"
    /\ UNCHANGED <<envVars, disk, img_i, distance_results, abandoned, edits,
                   paVars, msVars, plVars>>
    /\ PCLoad(current_image_index, console)
    /\ last' = "open"

\* A faulty click handler: the test for two points already selected is left
\* out.
PCOnClickNoCap(inaxes, pt) ==
    /\ tool = "PixelCalibrator" /\ phase = "show"
    /\ IF ~define_point_active \/ ~inaxes
       THEN UNCHANGED <<points, console, last>>
       ELSE /\ points' = Append(points, pt)
            /\ console' = console \cup {<<"Point selected", current_image_path>>}
            /\ last' = "click"
    /\ UNCHANGED <<envVars, phase, disk, img_i, current_image_path,
                   current_image_index, distance_results, define_point_active,
                   shown, disk_at_open, data_at_open, abandoned, edits, paVars,
                   msVars, plVars>>

\* _on_click
PCOnClick(inaxes, pt) ==
    /\ tool = "PixelCalibrator" /\ phase = "show"
    /\ IF ~define_point_active \/ ~inaxes \/ Len(points) >= 2
       THEN UNCHANGED <<points, console, last>>
       ELSE /\ points' = Append(points, pt)
            /\ console' = console \cup {<<"Point selected", current_image_path>>}
            /\ last' = "click"
    /\ UNCHANGED <<envVars, phase, disk, img_i, current_image_path,
                   current_image_index, distance_results, define_point_active,
                   shown, disk_at_open, data_at_open, abandoned, edits, paVars,
                   msVars, plVars>>

\* 'Define Points': _activate_define_mode
PCActivateDefineMode ==
    /\ tool = "PixelCalibrator" /\ phase = "show"
    /\ define_point_active' = TRUE
    /\ points' = <<>>
    /\ console' = console \cup {<<"Define mode activated", current_image_path>>}
    /\ last' = "define"
    /\ UNCHANGED <<envVars, phase, disk, img_i, current_image_path,
                   current_image_index, distance_results, shown, disk_at_open,
                   data_at_open, abandoned, edits, paVars, msVars, plVars>>

\* A faulty commit: the cursor is not advanced before the next load.
PCSaveAndNextStays(excel_ok) ==
    /\ tool = "PixelCalibrator" /\ phase = "show"
    /\ IF Len(points) # 2
       THEN /\ console' = console \cup {<<"Error: Please select exactly two points",
                                         current_image_path>>}
            /\ last' = "refused"
            /\ UNCHANGED <<phase, disk, current_image_path, pcVars, shown,
                           disk_at_open, data_at_open>>
       ELSE /\ distance_results' =
                   Append(distance_results,
                          <<image_files[current_image_index + 1],
                            Dist(points[1], points[2])>>)
            /\ disk' = SaveToExcel(disk, distance_results', excel_ok)
            /\ PCLoad(current_image_index,
                      console \cup {<<"Saved distance for", current_image_path>>}
                              \cup (IF excel_ok THEN {}
                                    ELSE {<<"Error saving to Excel file",
                                           current_image_path>>}))
            /\ last' = IF excel_ok THEN "save" ELSE "save_failed"
    /\ UNCHANGED <<envVars, img_i, abandoned, edits, paVars, msVars, plVars>>

\* A faulty commit: one selected point is enough, the record is made from the
\* first and the last point of the list.
PCSaveAndNextAnyPoints(excel_ok) ==
    /\ tool = "PixelCalibrator" /\ phase = "show"
    /\ IF Len(points) = 0
       THEN /\ console' = console \cup {<<"Error: Please select exactly two points",
                                         current_image_path>>}
            /\ last' = "refused"
            /\ UNCHANGED <<phase, disk, current_image_path, pcVars, shown,
                           disk_at_open, data_at_open>>
       ELSE /\ distance_results' =
                   Append(distance_results,
                          <<image_files[current_image_index + 1],
                            Dist(points[1], points[Len(points)])>>)
            /\ disk' = SaveToExcel(disk, distance_results', excel_ok)
            /\ PCLoad(current_image_index + 1,
                      console \cup {<<"Saved distance for", current_image_path>>}
                              \cup (IF excel_ok THEN {}
                                    ELSE {<<"Error saving to Excel file",
                                           current_image_path>>}))
            /\ last' = IF excel_ok THEN "save" ELSE "save_failed"
    /\ UNCHANGED <<envVars, img_i, abandoned, edits, paVars, msVars, plVars>>

\* 'Save & Next Image': _save_and_next, with _save_to_excel and
\* _load_next_image.  Without exactly two points it only prints an error.
\* A failing to_excel is caught inside _save_to_excel and printed.
PCSaveAndNext(excel_ok) ==
    /\ tool = "PixelCalibrator" /\ phase = "show"
    /\ IF Len(points) # 2
       THEN /\ console' = console \cup {<<"Error: Please select exactly two points",
                                         current_image_path>>}
            /\ last' = "refused"
            /\ UNCHANGED <<phase, disk, current_image_path, pcVars, shown,
                           disk_at_open, data_at_open>>
       ELSE /\ distance_results' =
                   Append(distance_results,
                          <<image_files[current_image_index + 1],
                            Dist(points[1], points[2])>>)
            /\ disk' = SaveToExcel(disk, distance_results', excel_ok)
            /\ PCLoad(current_image_index + 1,
                      console \cup {<<"Saved distance for", current_image_path>>}
                              \cup (IF excel_ok THEN {}
                                    ELSE {<<"Error saving to Excel file",
                                           current_image_path>>}))
            /\ last' = IF excel_ok THEN "save" ELSE "save_failed"
    /\ UNCHANGED <<envVars, img_i, abandoned, edits, paVars, msVars, plVars>>

\* The operator closes the window: plt.show() returns and run() ends.
PCCloseWindow ==
    /\ tool = "PixelCalibrator" /\ phase = "show"
    /\ phase' = "done"
    /\ last' = "close"
    /\ abandoned' = abandoned \cup {current_image_path}
    /\ UNCHANGED <<envVars, disk, console, img_i, current_image_path, pcVars,
                   shown, disk_at_open, data_at_open, edits, paVars, msVars,
                   plVars>>

NextPixelCalibrator ==
    \/ PCRun
    \/ \E inaxes \in BOOLEAN : \E pt \in CalibrationPoints : PCOnClick(inaxes, pt)
    \/ PCActivateDefineMode
    \/ \E excel_ok \in BOOLEAN : PCSaveAndNext(excel_ok)
    \/ PCCloseWindow

SpecPixelCalibrator == InitPixelCalibrator /\ [][NextPixelCalibrator]_vars

(***************************************************************************)
(* The three interactive tools                                             *)
(***************************************************************************)

Init == InitPoreAnalyzer \/ InitManualSegmenter \/ InitPixelCalibrator

Next == NextPoreAnalyzer \/ NextManualSegmenter \/ NextPixelCalibrator

Spec == Init /\ [][Next]_vars

\* "for img_path in self.image_files" takes its next entry: the step of
\* PARunNext, told by what it does to the loop counter.
PALoopTurn ==
    /\ tool = "PoreAnalyzer" /\ phase = "loop"
    /\ img_i < Len(image_files)
    /\ img_i' = img_i + 1

\* The analyzer and the calibrator, with the scheduling the code gives: the
\* for loop of run() goes on by itself whenever no window is open, and so
\* does the first _load_next_image of the calibrator.  What the operator
\* does, and when, is left open.
SpecProgress ==
    /\ InitPoreAnalyzer \/ InitPixelCalibrator
    /\ [][NextPoreAnalyzer \/ NextPixelCalibrator]_vars
    /\ WF_img_i(PALoopTurn)
    /\ WF_vars(PARunEnd)
    /\ WF_vars(PCRun)

(***************************************************************************)
(* Start-up: main() and __init__                                           *)
(***************************************************************************)

Tools == {"PoreAnalyzer", "ManualSegmenter", "PixelCalibrator"}

InputKinds == {"missing", "file", "empty", "images"}

\* Before main() runs: nothing exists under the output root.
InitStartup ==
    /\ PipelineIdle
    /\ tool \in Tools
    /\ phase = "start"
    /\ input_dir \in InputKinds
    /\ unreadable \in (IF input_dir = "images"
                       THEN SUBSET {FileAt(i) : i \in 1..NumImages} ELSE {{}})
    /\ image_files = <<>>
    /\ dirs = {} /\ calc = NoCalc /\ drawing = FALSE /\ memo = <<>> /\ disk = <<>>
    /\ console = {}
    /\ img_i = 0 /\ current_image_path = NoPath
    /\ shown = <<>> /\ last = "init" /\ disk_at_open = <<>>
    /\ data_at_open = <<>> /\ abandoned = {} /\ edits = 0
    /\ params \in (IF tool = "PoreAnalyzer" THEN Baselines ELSE {DefaultParams})
    /\ original_image = NoImage /\ processed_image = {} /\ object_data = <<>>
    /\ sliders = <<>>
    /\ ManualSegmenterIdle
    /\ PixelCalibratorIdle

\* What main() prints for the exception __init__ ends with: the
\* FileNotFoundError clause, or the general one for NotADirectoryError.
InputErrorMessage(kind) ==
    IF kind = "file" THEN <<"An unexpected error occurred", NoPath>>
    ELSE <<"Error: FileNotFoundError", NoPath>>

\* PoreAnalyzer.__init__ and ManualSegmenter.__init__ under main(): the output
\* directories are made first, then the input directory is listed, then an
\* empty list raises.
StartWithMkdirFirst(t) ==
    /\ dirs' = dirs \cup OutputDirs(t)
    /\ IF input_dir = "images"
       THEN /\ image_files' = SortedImageFiles
            /\ phase' = "loop"
            /\ UNCHANGED console
       ELSE /\ phase' = "input_error"
            /\ console' = console \cup {InputErrorMessage(input_dir)}
            /\ UNCHANGED image_files
    /\ UNCHANGED <<tool, unreadable, input_dir, drawing, calc, memo, disk, img_i,
                   current_image_path, paVars, msVars, pcVars, histVars, plVars>>

PAStart ==
    /\ tool = "PoreAnalyzer" /\ phase = "start"
    /\ StartWithMkdirFirst("PoreAnalyzer")

MSStart ==
    /\ tool = "ManualSegmenter" /\ phase = "start"
    /\ StartWithMkdirFirst("ManualSegmenter")

\* PixelCalibrator.__init__ under main(): os.path.isdir is tested first, then
\* the output directory is made, then the input directory is listed, then an
\* empty list raises.
PCStart ==
    /\ tool = "PixelCalibrator" /\ phase = "start"
    /\ IF input_dir \in {"missing", "file"}
       THEN /\ phase' = "input_error"
            /\ console' = console \cup {<<"Error: FileNotFoundError", NoPath>>}
            /\ UNCHANGED <<dirs, image_files>>
       ELSE IF input_dir = "empty"
       THEN /\ dirs' = dirs \cup OutputDirs("PixelCalibrator")
            /\ phase' = "input_error"
            /\ console' = console \cup {<<"Error: FileNotFoundError", NoPath>>}
            /\ UNCHANGED image_files
       ELSE /\ dirs' = dirs \cup OutputDirs("PixelCalibrator")
            /\ image_files' = SortedImageFiles
            /\ phase' = "loop"
            /\ UNCHANGED console
    /\ UNCHANGED <<tool, unreadable, input_dir, drawing, calc, memo, disk, img_i,
                   current_image_path, paVars, msVars, pcVars, histVars, plVars>>

NextStartup == PAStart \/ MSStart \/ PCStart

SpecStartup == InitStartup /\ [][NextStartup \/ Next]_vars

(***************************************************************************)
(* The older scripts: 2_PORE_FACTOR_CANNY.py, 3_OPUS25_PORE_FACTOR_SCALE.py *)
(***************************************************************************)

RECURSIVE LoopOverLegacy(_, _, _, _)
\* "for contour in contours" of the older process_image, from contour i on.
LoopOverLegacy(cs, q, i, acc) ==
    IF i > Len(cs) THEN acc
    ELSE LET out == ContourLegacy(cs[i], q)
         IN  LoopOverLegacy(cs, q, i + 1,
                            IF out.kind = "accepted"
                            THEN [mask |-> acc.mask \cup {out.approx},
                                  objects |-> Append(acc.objects, out.obj)]
                            ELSE acc)

\* process_image(image, ...) of the older script: (filtered_edges, object_data)
ProcessImageLegacy(img, q) ==
    LoopOverLegacy(ExtractContours(img, q), q, 1, [mask |-> {}, objects |-> <<>>])

LegacyMaskPath(f) == <<"output_dir", f[1], "_processed.png">>

LegacyDataPath(f) == <<"output_dir", f[1], ".xlsx">>

\* save_results(image_file, edges, object_data): the mask and the table are
\* both written, the table also when the list is empty.
SaveResults(d, f, edges, od) ==
    Write(Write(d, LegacyMaskPath(f), edges), LegacyDataPath(f), Records(f, od))

\* The older Canny script after its first lines: the directory listed (in
\* the order os.listdir gives, here the sorted one), output_dir made, the
\* initial parameters as the user filled them in.
InitLegacyCanny ==
    /\ InitSession
    /\ tool = "LegacyCanny"
    /\ dirs = {"output_dir"}
    /\ params \in Baselines
    /\ original_image = NoImage
    /\ processed_image = {}
    /\ object_data = <<>>
    /\ sliders = <<>>
    /\ ManualSegmenterIdle
    /\ PixelCalibratorIdle

\* The next turn of the image loop: imread, the initial processing with the
\* initial parameters, save_results, the sliders, plt.show().
LCRunNext ==
    /\ tool = "LegacyCanny" /\ phase = "loop"
    /\ img_i < Len(image_files)
    /\ img_i' = img_i + 1
    /\ current_image_path' = image_files[img_i + 1]
    /\ original_image' = Imread(image_files[img_i + 1])
    /\ IF ~original_image'.ok
       THEN /\ console' = console \cup {<<"Failed to load image", image_files[img_i + 1]>>}
            /\ last' = "skip"
            /\ UNCHANGED <<phase, sliders, processed_image, object_data, shown,
                           disk, disk_at_open, data_at_open>>
       ELSE /\ LET r == ProcessImageLegacy(original_image'.img, params)
               IN  /\ processed_image' = r.mask /\ object_data' = r.objects
                   /\ disk' = SaveResults(disk, image_files[img_i + 1], r.mask, r.objects)
            /\ console' = console \cup {<<"Saved", image_files[img_i + 1]>>}
            /\ sliders' = params
            /\ phase' = "show"
            /\ shown' = Append(shown, image_files[img_i + 1])
            /\ last' = "open"
            /\ disk_at_open' = disk
            /\ data_at_open' = <<>>
    /\ UNCHANGED <<envVars, params, abandoned, edits, msVars, pcVars, plVars>>

\* A slider is moved: update(val) processes the image with the sliders'
\* values, redraws, and calls save_results.
LCUpdate(name, v) ==
    /\ tool = "LegacyCanny" /\ phase = "show"
    /\ edits < MaxEdits
    /\ v # sliders[name]
    /\ sliders' = [sliders EXCEPT ![name] = v]
    /\ LET r == ProcessImageLegacy(original_image.img, sliders')
       IN  /\ processed_image' = r.mask /\ object_data' = r.objects
           /\ disk' = SaveResults(disk, current_image_path, r.mask, r.objects)
    /\ console' = console \cup {<<"Saved", current_image_path>>}
    /\ edits' = edits + 1
    /\ last' = "edit"
    /\ UNCHANGED <<envVars, phase, img_i, current_image_path, params,
                   original_image, shown, disk_at_open, data_at_open, abandoned,
                   msVars, pcVars, plVars>>

\* The operator closes the window: plt.show() returns, the loop goes on.
LCCloseWindow ==
    /\ tool = "LegacyCanny" /\ phase = "show"
    /\ phase' = "loop"
    /\ last' = "close"
    /\ UNCHANGED <<envVars, disk, console, img_i, current_image_path, paVars,
                   shown, disk_at_open, data_at_open, abandoned, edits, msVars,
                   pcVars, plVars>>

\* The image loop is over: the script ends.
LCRunEnd ==
    /\ tool = "LegacyCanny" /\ phase = "loop"
    /\ img_i = Len(image_files)
    /\ phase' = "done"
    /\ last' = "end"
    /\ UNCHANGED <<envVars, disk, console, img_i, current_image_path, paVars,
                   shown, disk_at_open, data_at_open, abandoned, edits, msVars,
                   pcVars, plVars>>

NextLegacyCanny ==
    \/ LCRunNext
    \/ \E name \in SliderNames : \E v \in SliderChoices(name) : LCUpdate(name, v)
    \/ LCCloseWindow
    \/ LCRunEnd

\* output_file of the older calibration script, a fixed name
LegacyOutputFile == <<"output", 0, "{today_str}.xlsx">>

\* save_to_excel of the older script: the whole list, and no try around
\* to_excel.
SaveToExcelLegacy(d, results) ==
    IF results = <<>> THEN d ELSE Write(d, LegacyOutputFile, results)

InitLegacyCalibrator ==
    /\ InitSession
    /\ tool = "LegacyCalibrator"
    /\ dirs = {}
    /\ PoreAnalyzerIdle
    /\ ManualSegmenterIdle
    /\ PixelCalibratorIdle

\* process_image(image_filename): the global filename and original_image are
\* assigned first; an unreadable image gets the message and a bare return,
\* so whatever was on screen stays there and define_point_active keeps its
\* value; a readable one clears the points and the flag and is put on screen.
\* pts is the list of points at the call, out the messages printed so far.
LQProcessImage(image_filename, pts, out) ==
    /\ current_image_path' = image_filename
    /\ original_image' = Imread(image_filename)
    /\ IF ~original_image'.ok
       THEN /\ console' = out \cup {<<"Skipping", image_filename>>}
            /\ points' = pts
            /\ UNCHANGED <<define_point_active, shown, disk_at_open, data_at_open>>
       ELSE /\ console' = out
            /\ points' = <<>>
            /\ define_point_active' = FALSE
            /\ shown' = Append(shown, image_filename)
            /\ disk_at_open' = disk'
            /\ data_at_open' = distance_results'

\* process_images: the first image.  plt.show() is reached only through a
\* readable image, so with an unreadable first image the script ends.
LQRun ==
    /\ tool = "LegacyCalibrator" /\ phase = "loop"
    /\ UNCHANGED <<envVars, disk, img_i, current_image_index, distance_results,
                   params, processed_image, object_data, sliders, abandoned,
                   edits, msVars, plVars>>
    /\ LQProcessImage(image_files[1], points, console)
    /\ phase' = IF original_image'.ok THEN "show" ELSE "done"
    /\ last' = "open"

\* select_points: a press anywhere on the canvas; update_display() after the
\* second point, which fails on original_image = None.
LQSelectPoints(pt) ==
    /\ tool = "LegacyCalibrator" /\ phase = "show"
    /\ edits < MaxEdits + MaxEdits
    /\ edits' = edits + 1
    /\ IF define_point_active /\ Len(points) < 2
       THEN /\ points' = Append(points, pt)
            /\ last' = "click"
       ELSE UNCHANGED <<points, last>>
    /\ console' = IF Len(points') = 2 /\ ~original_image.ok
                  THEN console \cup {<<"AttributeError", current_image_path>>}
                  ELSE console
    /\ UNCHANGED <<envVars, phase, disk, img_i, current_image_path,
                   current_image_index, distance_results, define_point_active,
                   shown, disk_at_open, data_at_open, abandoned, paVars, msVars,
                   plVars>>

\* 'Define points': set_define_point_active(True)
LQDefine ==
    /\ tool = "LegacyCalibrator" /\ phase = "show"
    /\ ~define_point_active
    /\ define_point_active' = TRUE
    /\ last' = "define"
    /\ UNCHANGED <<envVars, phase, disk, console, img_i, current_image_path,
                   current_image_index, points, distance_results, shown,
                   disk_at_open, data_at_open, abandoned, edits, paVars, msVars,
                   plVars>>

\* 'Save points': save_point, with save_to_excel and load_next_image.  The
\* record is appended and the points cleared before update_display(), which
\* fails on original_image = None: the handler then ends there, before
\* save_to_excel and load_next_image.
LQSavePoint ==
    /\ tool = "LegacyCalibrator" /\ phase = "show"
    /\ Len(points) = 2
    /\ distance_results' =
           Append(distance_results, <<current_image_path, Dist(points[1], points[2])>>)
    /\ IF ~original_image.ok
       THEN /\ points' = <<>>
            /\ console' = console \cup {<<"AttributeError", current_image_path>>}
            /\ last' = "save_failed"
            /\ UNCHANGED <<phase, disk, current_image_path, current_image_index,
                           original_image, define_point_active, shown,
                           disk_at_open, data_at_open>>
       ELSE /\ disk' = SaveToExcelLegacy(disk, distance_results')
            /\ current_image_index' = current_image_index + 1
            /\ last' = "save"
            /\ IF current_image_index' < Len(image_files)
               THEN /\ LQProcessImage(image_files[current_image_index' + 1], <<>>,
                                      console \cup {<<"Results saved", current_image_path>>})
                    /\ UNCHANGED phase
               ELSE /\ phase' = "done"
                    /\ points' = <<>>
                    /\ console' = console \cup {<<"Results saved", current_image_path>>}
                    /\ UNCHANGED <<current_image_path, original_image,
                                   define_point_active, shown, disk_at_open,
                                   data_at_open>>
    /\ UNCHANGED <<envVars, img_i, params, processed_image, object_data, sliders,
                   abandoned, edits, msVars, plVars>>

\* The operator closes the window: plt.show() returns and the script ends.
LQCloseWindow ==
    /\ tool = "LegacyCalibrator" /\ phase = "show"
    /\ phase' = "done"
    /\ last' = "close"
    /\ UNCHANGED <<envVars, disk, console, img_i, current_image_path, pcVars,
                   shown, disk_at_open, data_at_open, abandoned, edits, paVars,
                   msVars, plVars>>

NextLegacyCalibrator ==
    \/ LQRun
    \/ \E pt \in CalibrationPoints : LQSelectPoints(pt)
    \/ LQDefine
    \/ LQSavePoint
    \/ LQCloseWindow


(***************************************************************************)
(* The pipeline, one step at a time                                        *)
(***************************************************************************)

Variants == {"opus25", "legacy"}

\* The largest raw kernel value tried, in halves.
MaxKernelRaw == 11

KernelRaws == (0 - 3)..MaxKernelRaw

MinAreaValues == {0, 40000, 200000}

MinCircValues == {0, 52, 90}

\* The parameter dictionaries tried: any raw value for one kernel at a time,
\* and every combination of the other parameters.
ParamSets ==
    {[DefaultParams EXCEPT ![k] = r, !.min_area = 0] :
        k \in {"gaussian_k", "median_k", "dilation_k"}, r \in KernelRaws}
    \cup
    {Params(bt, c[1], c[2], ep, mc, ma, 6, 10, mk) :
        bt \in {0, 128, 255}, c \in {<<10, 50>>, <<150, 50>>}, ep \in {1, 5},
        mc \in MinCircValues, ma \in MinAreaValues, mk \in {6, 10}}

InitPipeline ==
    /\ variant \in Variants
    /\ p \in ParamSets
    /\ image \in {Scenes[i] : i \in DOMAIN Scenes}
    /\ pc = "start"
    /\ g_k = 0 /\ m_k = 0 /\ d_k = 0
    /\ binary = <<>>
    /\ contours = <<>>
    /\ ci = 1
    /\ filtered_image = {}
    /\ object_list = <<>>
    /\ trace = <<>>
    /\ SessionIdle

\* The stages before the loop: kernel normalization, the two blurs, Canny,
\* threshold, dilation, findContours, and the empty mask and list.
PlStages ==
    /\ pc = "start"
    /\ g_k' = NormalizeKernel(p.gaussian_k)
    /\ m_k' = NormalizeKernel(p.median_k)
    /\ d_k' = NormalizeKernel(p.dilation_k)
    /\ binary' = Threshold(Canny(MedianBlur(GaussianBlur(image, g_k'), m_k'),
                                 p.canny_low, p.canny_high),
                           p.binary_thresh)
    /\ contours' = FindContours(image, Dilate(binary', d_k'))
    /\ filtered_image' = {}
    /\ object_list' = <<>>
    /\ ci' = 1
    /\ pc' = "loop"
    /\ UNCHANGED <<variant, p, image, trace, sessVars>>

\* One iteration of "for cnt in contours".
PlContour ==
    /\ pc = "loop"
    /\ ci <= Len(contours)
    /\ LET out == ProcessContour(variant, contours[ci], p)
       IN  /\ trace' = Append(trace, out)
           /\ IF out.kind = "raise"
              THEN /\ pc' = "raised"
                   /\ UNCHANGED <<filtered_image, object_list, ci>>
              ELSE /\ pc' = "loop"
                   /\ ci' = ci + 1
                   /\ IF out.kind = "accepted"
                      THEN /\ filtered_image' = filtered_image \cup {out.approx}
                           /\ object_list' = Append(object_list, out.obj)
                      ELSE UNCHANGED <<filtered_image, object_list>>
    /\ UNCHANGED <<variant, p, image, g_k, m_k, d_k, binary, contours, sessVars>>

\* return filtered_image, object_data
PlReturn ==
    /\ pc = "loop"
    /\ ci > Len(contours)
    /\ pc' = "done"
    /\ UNCHANGED <<variant, p, image, g_k, m_k, d_k, binary, contours, ci,
                   filtered_image, object_list, trace, sessVars>>

NextPipeline == PlStages \/ PlContour \/ PlReturn

SpecPipeline == InitPipeline /\ [][NextPipeline]_vars

(***************************************************************************)
(* The measurement of one shape, on its own                                *)
(***************************************************************************)

MaxSide == 4

MaxRadius == 40

\* resize_factor as num/den: 0.2, 0.25 (the default), 0.5 and 1.0.
Scales == {<<1, 5>>, <<1, 4>>, <<1, 2>>, <<1, 1>>}

\* The legacy drawing script shows every image at 25% of its size.
LegacyResizeDen == 4

RectangleShape(w, h) == <<<<0, 0>>, <<w, 0>>, <<w, h>>, <<0, h>>>>

RightTriangleShape(w, h) == <<<<0, 0>>, <<w, 0>>, <<w, h>>>>

\* Polygons of positive area, as clicked on the displayed image.
DrawnShapes ==
    {RectangleShape(w, h) : w \in 1..MaxSide, h \in 1..MaxSide}
        \cup {RightTriangleShape(w, h) : w \in 1..MaxSide, h \in 1..MaxSide}

NGonSides == {360, 720, 1440}

\* The circle of radius r: its circumference 2*pi*r and its area pi*r^2.
CircleLength(r) == (2 * 31416 * r) \div FP

CircleArea(r) == (31416 * r * r) \div FP

\* The regular n-gon inscribed in that circle: perimeter 2*n*r*sin(pi/n) and
\* area (n/2)*r^2*sin(2*pi/n), with sin x = x - x^3/6.
NGonLength(n, r) == CircleLength(r) - (CircleLength(r) * 1645) \div (1000 * n * n)

NGonArea(n, r) == CircleArea(r) - (CircleArea(r) * 658) \div (100 * n * n)

\* The legacy on_click: the measures of the polygon as drawn, unscaled.
LegacyShapeRecord(name, shape_points) ==
    LET perimeter == PolygonLength(shape_points)
        area == PolygonArea(shape_points)
    IN  <<name, perimeter, area, PoreFactor(area, perimeter)>>

InitMeasure ==
    /\ PipelineIdle
    /\ NoSession
    /\ calc \in [kind : {"polygon"}, shape : DrawnShapes, scale : Scales]
                    \cup [kind : {"ngon"}, n : NGonSides, r : 1..MaxRadius]

\* ManualSegmenter._save_and_close on one shape.
MeasureShape ==
    /\ calc.kind = "polygon"
    /\ PolygonArea(calc.shape) > 0
    /\ calc' = [kind |-> "record", by |-> "ManualSegmenter",
                shape |-> calc.shape, scale |-> calc.scale,
                rec |-> ShapeRecordAt("", calc.shape, calc.scale[1], calc.scale[2])]
    /\ UNCHANGED <<tool, phase, image_files, unreadable, input_dir, drawing, dirs, memo, disk,
                   console, img_i, current_image_path, paVars, msVars, pcVars,
                   histVars, plVars>>

\* The legacy on_click closing one shape.
MeasureShapeLegacy ==
    /\ calc.kind = "polygon"
    /\ calc.scale = <<1, LegacyResizeDen>>
    /\ calc' = [kind |-> "record", by |-> "legacy",
                shape |-> calc.shape, scale |-> calc.scale,
                rec |-> LegacyShapeRecord("", calc.shape)]
    /\ UNCHANGED <<tool, phase, image_files, unreadable, input_dir, drawing, dirs, memo, disk,
                   console, img_i, current_image_path, paVars, msVars, pcVars,
                   histVars, plVars>>

\* The two ratios of _process_image on a regular n-gon.
MeasureNGon ==
    /\ calc.kind = "ngon"
    /\ LET perimeter == NGonLength(calc.n, calc.r)
           area == NGonArea(calc.n, calc.r)
       IN  calc' = [kind |-> "metrics", n |-> calc.n, r |-> calc.r,
                    circularity |-> Circularity(area, perimeter),
                    pore_factor |-> IF area > 0 THEN PoreFactor(area, perimeter)
                                    ELSE 0]
    /\ UNCHANGED <<tool, phase, image_files, unreadable, input_dir, drawing, dirs, memo, disk,
                   console, img_i, current_image_path, paVars, msVars, pcVars,
                   histVars, plVars>>

NextMeasure == MeasureShape \/ MeasureShapeLegacy \/ MeasureNGon

SpecMeasure == InitMeasure /\ [][NextMeasure]_vars

(***************************************************************************)
(* The older drawing script: 4_OPUS25_PORE_FACTOR_DRAW.py                  *)
(***************************************************************************)

\* os.path.join('output/image/path', f"{today_str}_{current_image_filename}.png")
LegacyFigPath(f) == <<"output/image/path", f[1], f[2]>>

\* output_excel_path
LegacyExcelPath == <<"output/excel/path", 0, "today_pore_factor.xlsx">>

\* The script after its globals: points = [], drawing = False, shapes_data = [].
InitLegacyDraw ==
    /\ InitSession
    /\ tool = "LegacyDraw"
    /\ dirs = {}
    /\ PoreAnalyzerIdle
    /\ ManualSegmenterIdle
    /\ PixelCalibratorIdle

\* read_images_from_directory: the next turn of the loop, draw_on_image.
\* Image.open raises on a file that does not decode and nothing catches it.
\* points and drawing are globals and are not reset for a new image.
LDRunNext ==
    /\ tool = "LegacyDraw" /\ phase = "loop"
    /\ img_i < Len(image_files)
    /\ img_i' = img_i + 1
    /\ console' = console \cup {<<"Processing image", image_files[img_i + 1]>>}
                          \cup (IF Readable(image_files[img_i + 1]) THEN {}
                                ELSE {<<"Traceback", image_files[img_i + 1]>>})
    /\ current_image_path' = image_files[img_i + 1]
    /\ IF ~Readable(image_files[img_i + 1])
       THEN /\ phase' = "aborted"
            /\ last' = "raise"
            /\ UNCHANGED <<shown, disk_at_open, data_at_open>>
       ELSE /\ phase' = "show"
            /\ shown' = Append(shown, image_files[img_i + 1])
            /\ last' = "open"
            /\ disk_at_open' = disk
            /\ data_at_open' = all_shapes_data
    /\ UNCHANGED <<tool, image_files, unreadable, input_dir, dirs, calc, memo,
                   drawing, disk, msVars, abandoned, edits, paVars, pcVars, plVars>>

\* on_click.  Button 1 starts a polygon or adds a vertex to it.  Button 3
\* while drawing, with more than one vertex, appends the first vertex and
\* measures the polygon: pore_factor = perimeter**2 / (16*area) is computed
\* with no test of the area, so on area 0 the handler ends in the division,
\* before the record, the files and 'drawing = False'.
LDOnClick(button, pt) ==
    /\ tool = "LegacyDraw" /\ phase = "show"
    /\ edits < MaxDraw
    /\ IF button = 1
       THEN /\ current_points' = Append(IF drawing THEN current_points ELSE <<>>, pt)
            /\ drawing' = TRUE
            /\ edits' = edits + 1
            /\ last' = "click"
            /\ UNCHANGED <<all_shapes_data, disk, console>>
       ELSE IF button = 3 /\ drawing /\ Len(current_points) > 1
       THEN /\ current_points' = Append(current_points, current_points[1])
            /\ edits' = edits + 1
            /\ IF PolygonArea(current_points') = 0
               THEN /\ console' = console \cup {<<"ZeroDivisionError", current_image_path>>}
                    /\ last' = "raise"
                    /\ UNCHANGED <<all_shapes_data, disk, drawing>>
               ELSE /\ all_shapes_data' =
                           Append(all_shapes_data,
                                  LegacyShapeRecord(current_image_path, current_points'))
                    /\ disk' = Write(Write(disk, LegacyFigPath(current_image_path),
                                           <<current_image_path, current_points'>>),
                                     LegacyExcelPath, all_shapes_data')
                    /\ console' = console \cup {<<"Saved image with shape", current_image_path>>}
                    /\ drawing' = FALSE
                    /\ last' = "save"
       ELSE UNCHANGED <<current_points, drawing, edits, last, all_shapes_data, disk,
                        console>>
    /\ UNCHANGED <<tool, image_files, unreadable, input_dir, dirs, calc, memo,
                   phase, img_i, current_image_path, shapes_on_current_image,
                   shown, disk_at_open, data_at_open, abandoned, paVars, pcVars,
                   plVars>>

\* The operator closes the window: plt.show() returns, the loop goes on.
LDCloseWindow ==
    /\ tool = "LegacyDraw" /\ phase = "show"
    /\ phase' = "loop"
    /\ last' = "close"
    /\ UNCHANGED <<envVars, disk, console, img_i, current_image_path, msVars,
                   shown, disk_at_open, data_at_open, abandoned, edits, paVars,
                   pcVars, plVars>>

\* After the loop: export_to_excel writes the table, also an empty one.
LDRunEnd ==
    /\ tool = "LegacyDraw" /\ phase = "loop"
    /\ img_i = Len(image_files)
    /\ disk' = Write(disk, LegacyExcelPath, all_shapes_data)
    /\ console' = console \cup {<<"Data has been exported", NoPath>>}
    /\ phase' = "done"
    /\ last' = "end"
    /\ UNCHANGED <<envVars, img_i, current_image_path, msVars, shown,
                   disk_at_open, data_at_open, abandoned, edits, paVars, pcVars,
                   plVars>>

NextLegacyDraw ==
    \/ LDRunNext
    \/ \E button \in {1, 2, 3} :
       \E pt \in DrawChoices(IF drawing THEN current_points ELSE <<>>) :
          /\ button = 1 => (drawing => Len(current_points) < MaxRing)
          /\ LDOnClick(button, pt)
    \/ LDCloseWindow
    \/ LDRunEnd

InitLegacy == InitLegacyCanny \/ InitLegacyCalibrator \/ InitLegacyDraw

NextLegacy == NextLegacyCanny \/ NextLegacyCalibrator \/ NextLegacyDraw

SpecLegacy == InitLegacy /\ [][NextLegacy]_vars

(***************************************************************************)
(* Properties of the pipeline                                              *)
(***************************************************************************)

\* The contours the loop has been through.
Visited == 1..Len(trace)

\* The polygon contour i is approximated to, and its measurements.
CandApprox(i) ==
    ApproxPolyDP(contours[i], (p.epsilon * ArcLength(contours[i].pts)) \div FP)

CandArea(i) == ContourArea(CandApprox(i))

CandPerimeter(i) == ArcLength(CandApprox(i))

CandDegenerate(i) ==
    ArcLength(contours[i].pts) = 0 \/ CandArea(i) = 0 \/ CandPerimeter(i) = 0

\* Some entry of the result list carries the measurements of contour i.
CandListed(i) ==
    \E j \in DOMAIN object_list :
        object_list[j][1] = CandPerimeter(i) /\ object_list[j][2] = CandArea(i)

CandDrawn(i) == CandApprox(i) \in filtered_image

\* C1: once the kernels are normalized, each value handed to the blur and
\* dilation stages is an odd integer >= 3, whatever the raw value (even, zero,
\* one, negative, fractional); raw 2 gives 3, raw 4 gives 5, raw -1 gives 3,
\* and an odd raw value >= 3 is passed through unchanged.
C1_KernelsOddAtLeast3 ==
    pc # "start" =>
        \A k \in {<<p.gaussian_k, g_k>>, <<p.median_k, m_k>>, <<p.dilation_k, d_k>>} :
            /\ k[2] % 2 = 1
            /\ k[2] >= 3
            /\ (k[1] = 4 => k[2] = 3)
            /\ (k[1] = 8 => k[2] = 5)
            /\ (k[1] = 0 - 2 => k[2] = 3)
            /\ (k[1] >= 6 /\ k[1] % 4 = 2 => 2 * k[2] = k[1])

\* C1 witness: a negative raw kernel value has been normalized.
C1_Witness == pc = "loop" /\ p.gaussian_k = 0 - 2 /\ g_k = 3

\* C2: a visited non-degenerate candidate is in the result list iff it is
\* drawn into the mask, and both iff area > min_area and circularity >=
\* min_circ.
C2_FilterRule ==
    \A i \in Visited :
        ~CandDegenerate(i) =>
            /\ CandListed(i) <=> CandDrawn(i)
            /\ CandDrawn(i) <=>
                  /\ CandArea(i) > p.min_area
                  /\ (4 * PiFP * CandArea(i))
                         \div ((CandPerimeter(i) * CandPerimeter(i)) \div FP) >= p.min_circ

\* C2 witness: one candidate with area equal to min_area was rejected although
\* round enough, another with circularity equal to min_circ was accepted.
C2_Witness ==
    /\ \E i \in Visited :
          /\ ~CandDegenerate(i)
          /\ CandArea(i) = p.min_area
          /\ (4 * PiFP * CandArea(i))
                 \div ((CandPerimeter(i) * CandPerimeter(i)) \div FP) >= p.min_circ
          /\ ~CandDrawn(i) /\ ~CandListed(i)
    /\ \E i \in Visited :
          /\ ~CandDegenerate(i)
          /\ (4 * PiFP * CandArea(i))
                 \div ((CandPerimeter(i) * CandPerimeter(i)) \div FP) = p.min_circ
          /\ CandDrawn(i) /\ CandListed(i)

\* C3: no entry of the result list has perimeter 0 or area 0; a candidate whose
\* approximated area or perimeter is 0 is neither listed, nor drawn, nor
\* counted; and no division by zero is evaluated.
C3_NoDegenerateObject ==
    /\ \A j \in DOMAIN object_list : object_list[j][1] # 0 /\ object_list[j][2] # 0
    /\ \A i \in Visited :
          (CandArea(i) = 0 \/ CandPerimeter(i) = 0) => ~CandDrawn(i) /\ ~CandListed(i)
    /\ Len(object_list) = Cardinality({i \in Visited : ~CandDegenerate(i) /\ CandDrawn(i)})
    /\ \A i \in Visited : 0 \notin trace[i].divisors
    /\ pc # "raised"

\* C3 witness: the loop has been through a one-point contour and a candidate
\* approximated to zero area, and has accepted another.
C3_Witness ==
    /\ pc = "done"
    /\ \E i \in Visited : ArcLength(contours[i].pts) = 0
    /\ \E i \in Visited : ArcLength(contours[i].pts) # 0 /\ CandArea(i) = 0
    /\ object_list # <<>>

(***************************************************************************)
(* PoreAnalyzer: preview, commit, re-seeding                               *)
(***************************************************************************)

InPreview == tool = "PoreAnalyzer" /\ phase = "show"

\* C4: whenever the PoreAnalyzer session waits for the operator on an image,
\* the stored pair (processed_image, object_data) is what the segmentation
\* pipeline returns for the image on screen with the values the sliders hold
\* now; on entry to the image and after every slider move.
C4_LivePreview ==
    InPreview =>
        /\ original_image = Imread(current_image_path)
        /\ original_image.ok
        /\ processed_image = ProcessImage(original_image.img, sliders).mask
        /\ object_data = ProcessImage(original_image.img, sliders).objects

\* Two slider moves on one image, after which the list differs from the one
\* first previewed.
C4_Witness ==
    /\ InPreview /\ last = "edit" /\ edits = 2
    /\ object_data # ProcessImage(original_image.img, params).objects
    /\ object_data # <<>>

C9_SlidersEqualBaseline ==
    (tool = "PoreAnalyzer" /\ last = "open") =>
        \A name \in SliderNames : sliders[name] = params[name]

OnGrid(name) == ValueInBounds(params[name], SliderDef(name)) = params[name]

\* C9: at the first preview of every image each slider holds the baseline
\* value brought into the slider's range and onto its step (the baseline
\* value itself when that is a position of the slider, as every default
\* is), whatever was edited on earlier images; and no step of the session
\* changes the baseline mapping.
C9_Reseeded ==
    /\ []((tool = "PoreAnalyzer" /\ last = "open") =>
            \A name \in SliderNames :
                /\ sliders[name] = ValueInBounds(params[name], SliderDef(name))
                /\ OnGrid(name) => sliders[name] = params[name])
    /\ [][params' = params]_vars

\* A later image opens after sliders were moved on an earlier one, with a
\* baseline that is not a slider position.
C9_Witness ==
    /\ tool = "PoreAnalyzer" /\ last = "open" /\ edits > 0 /\ Len(shown) >= 2
    /\ ~OnGrid("min_area") /\ sliders.min_area # params.min_area

(***************************************************************************)
(* The sessions: abandoning, skipping, accumulating                        *)
(***************************************************************************)

Presented == {shown[i] : i \in DOMAIN shown}

\* The images whose window was left through 'Save & Next'.
Committed ==
    Presented \ (abandoned \cup (IF phase = "show" THEN {current_image_path} ELSE {}))

\* The rows of every table on disk.
TableRows ==
    UNION {{disk[x][j] : j \in DOMAIN disk[x]} :
              x \in {y \in DOMAIN disk : y[1] = "data" \/ y = OutputFile}}

\* C6: while an image of PoreAnalyzer or ManualSegmenter is open, and when
\* its window has been closed without 'Save & Next', the files on disk and
\* the accumulated records are what they were when the image was opened,
\* whatever was edited, clicked or cleared on it; no record anywhere is ever
\* tagged with an abandoned image, and every file on disk was written by the
\* commit of some image.
C6_NoPartialCommit ==
    tool \in {"PoreAnalyzer", "ManualSegmenter"} =>
        /\ (phase = "show" \/ last = "close") =>
               disk = disk_at_open /\ all_shapes_data = data_at_open
        /\ \A f \in abandoned :
               /\ \A j \in DOMAIN all_shapes_data : all_shapes_data[j][1] # f
               /\ \A r \in TableRows : r[1] # f
        /\ \A x \in DOMAIN disk :
               \/ x = ExportPath
               \/ \E f \in Committed : x \in {MaskPath(f), DataPath(f), FigPath(f)}

\* A window closed on a drawn shape of positive area, after a clear on the
\* same image and a commit on an earlier one.
C6_Witness ==
    /\ tool = "ManualSegmenter" /\ last = "close"
    /\ all_shapes_data # <<>>
    /\ shapes_on_current_image # <<>>
    /\ PolygonArea(shapes_on_current_image[1]) > 0
    /\ <<"Clearing all shapes", NoPath>> \in console

\* How many files of the sequence the session has been through.
Passed ==
    IF tool = "PoreAnalyzer" THEN img_i
    ELSE IF phase = "loop" THEN 0
    ELSE IF current_image_index + 1 <= Len(image_files) THEN current_image_index + 1
    ELSE Len(image_files)

C8_OpenFailureDoesNotAbort ==
    (/\ tool = "ManualSegmenter"
     /\ phase \in {"done", "aborted"}
     /\ last # "export_failed"
     /\ all_shapes_data # <<>>) =>
        /\ shown = SelectSeq(image_files, Readable)
        /\ ExportPath \in DOMAIN disk
        /\ disk[ExportPath] = all_shapes_data

IsPrefix(s, t) == Len(s) <= Len(t) /\ SubSeq(t, 1, Len(s)) = s

PositiveArea(shape_points) == PolygonArea(shape_points) > 0

\* C10: every step leaves the records already in all_shapes_data and in
\* distance_results where they are and adds new ones only at the end; the
\* records are in image-sequence order; and the records a ManualSegmenter
\* commit adds are those of the shapes of positive area, in the order the
\* shapes were completed.
C10_AppendOnly ==
    /\ [][/\ IsPrefix(all_shapes_data, all_shapes_data')
          /\ IsPrefix(distance_results, distance_results')]_vars
    /\ [](\A i, j \in DOMAIN all_shapes_data :
              i <= j => FileIndex(all_shapes_data[i][1]) <= FileIndex(all_shapes_data[j][1]))
    /\ [](\A i, j \in DOMAIN distance_results :
              i < j => FileIndex(distance_results[i][1]) < FileIndex(distance_results[j][1]))
    /\ [][(tool = "ManualSegmenter" /\ phase = "show" /\ last' = "save") =>
             LET new == SubSeq(all_shapes_data', Len(all_shapes_data) + 1,
                               Len(all_shapes_data'))
                 pos == SelectSeq(shapes_on_current_image, PositiveArea)
             IN  /\ Len(new) = Len(pos)
                 /\ \A k \in 1..Len(pos) :
                        /\ new[k][1] = current_image_path
                        /\ new[k][2] = PolygonLength(pos[k]) * ResizeDen
                        /\ new[k][3] = PolygonArea(pos[k]) * ResizeDen * ResizeDen]_vars

\* A commit on a later image has added a record behind the one committed on
\* an earlier image.
C10_Witness ==
    /\ tool = "ManualSegmenter" /\ last = "save"
    /\ data_at_open # <<>>
    /\ Len(all_shapes_data) > Len(data_at_open)
    /\ all_shapes_data[1][1] # all_shapes_data[Len(all_shapes_data)][1]

(***************************************************************************)
(* The exported tables                                                     *)
(***************************************************************************)

FlushFailed == \E i \in DOMAIN image_files :
                   <<"Error saving to Excel file", image_files[i]>> \in console

\* C11: a flush writes the whole accumulated list to one fixed path: after a
\* successful flush of the calibrator the table is distance_results, after
\* the export of the segmenter it is all_shapes_data, no other table is ever
\* written by these tools, and flushing again with nothing appended leaves
\* the disk as the first flush left it.
C11_FlushOverwrites ==
    /\ (tool = "PixelCalibrator" /\ last = "save") =>
           OutputFile \in DOMAIN disk /\ disk[OutputFile] = distance_results
    /\ (tool = "ManualSegmenter" /\ phase = "done" /\ all_shapes_data # <<>>) =>
           ExportPath \in DOMAIN disk /\ disk[ExportPath] = all_shapes_data
    /\ tool = "PixelCalibrator" =>
           /\ DOMAIN disk \subseteq {OutputFile}
           /\ LET once == SaveToExcel(disk, distance_results, TRUE)
              IN  /\ SaveToExcel(once, distance_results, TRUE) = once
                  /\ distance_results # <<>> => once[OutputFile] = distance_results
    /\ tool = "ManualSegmenter" =>
           /\ \A x \in DOMAIN disk : x[1] = "data" => x = ExportPath
           /\ LET once == ExportResults(disk, all_shapes_data)
              IN  ExportResults(once, all_shapes_data) = once

\* The calibrator's second successful flush has replaced the one-record
\* table by the two-record list.
C11_Witness ==
    /\ tool = "PixelCalibrator" /\ last = "save" /\ ~FlushFailed
    /\ Len(distance_results) = 2
    /\ disk[OutputFile] = distance_results

\* The table at path x is on disk now as it was when the window opened.
SameTable(x) ==
    \/ x \notin DOMAIN disk /\ x \notin DOMAIN disk_at_open
    \/ x \in DOMAIN disk /\ x \in DOMAIN disk_at_open /\ disk[x] = disk_at_open[x]

\* C12: a flush of an empty list neither creates nor overwrites a table: the
\* segmenter's export of an empty all_shapes_data leaves no table, a
\* PoreAnalyzer commit of an empty object list leaves the image's table
\* path as it was, and the calibrator's table exists only when
\* distance_results is non-empty.
C12_EmptyFlushNoOp ==
    /\ (tool = "ManualSegmenter" /\ phase = "done" /\ all_shapes_data = <<>>) =>
           ExportPath \notin DOMAIN disk
    /\ (tool = "ManualSegmenter" /\ ExportPath \in DOMAIN disk) =>
           disk[ExportPath] # <<>>
    /\ (tool = "PoreAnalyzer" /\ last = "save" /\ object_data = <<>>) =>
           SameTable(DataPath(current_image_path))
    /\ tool = "PoreAnalyzer" =>
           \A x \in DOMAIN disk : x[1] = "data" => disk[x] # <<>>
    /\ tool = "PixelCalibrator" =>
           /\ OutputFile \in DOMAIN disk => disk[OutputFile] # <<>>
           /\ \A ok \in BOOLEAN : SaveToExcel(disk, <<>>, ok) = disk

\* The segmenter's run has ended after a commit that accumulated nothing:
\* the figure is on disk, no table is.
C12_Witness ==
    /\ tool = "ManualSegmenter" /\ phase = "done" /\ all_shapes_data = <<>>
    /\ <<"No shapes were drawn to export.", NoPath>> \in console
    /\ \E f \in Presented : FigPath(f) \in DOMAIN disk /\ disk[FigPath(f)][2] # <<>>

\* C13: a calibrator commit whose table write fails prints a diagnostic,
\* keeps the new record behind all earlier ones in distance_results, leaves
\* the disk as it was and still moves on to a later image or to the end;
\* and after any later successful flush the table holds every record of
\* distance_results, those whose flush failed included.
C13_FlushFailureRecovered ==
    /\ [][(tool = "PixelCalibrator" /\ last' = "save_failed") =>
             /\ <<"Error saving to Excel file", current_image_path>> \in console'
             /\ Len(distance_results') = Len(distance_results) + 1
             /\ IsPrefix(distance_results, distance_results')
             /\ distance_results'[Len(distance_results')][1] = current_image_path
             /\ disk' = disk
             /\ current_image_index' > current_image_index
             /\ \/ phase' = "show" /\ Readable(image_files[current_image_index' + 1])
                \/ phase' = "done" /\ current_image_index' = Len(image_files)]_vars
    /\ []((tool = "PixelCalibrator" /\ last = "save" /\ FlushFailed) =>
             /\ OutputFile \in DOMAIN disk
             /\ Len(disk[OutputFile]) = Len(distance_results)
             /\ \A j \in DOMAIN distance_results :
                    disk[OutputFile][j] = distance_results[j])

\* The flush of the first record failed, the flush at the next commit
\* succeeded, and the table begins with the first record.
C13_Witness ==
    /\ tool = "PixelCalibrator" /\ last = "save"
    /\ Len(distance_results) >= 2
    /\ <<"Error saving to Excel file", distance_results[1][1]>> \in console
    /\ disk[OutputFile][1] = distance_results[1]

\* C14: a failed write of the segmenter's table does not end the run with
\* the accumulated records unwritten.
C14_ExportFailureRecovered ==
    ~(/\ tool = "ManualSegmenter"
      /\ last = "export_failed"
      /\ phase = "aborted"
      /\ all_shapes_data # <<>>
      /\ ExportPath \notin DOMAIN disk)

\* C15: when the input directory is missing, is not a directory or holds no
\* supported image, the tool prints an error, presents no image and has
\* created nothing under the output root, neither files nor directories.
C15_InputErrorNoOutput ==
    phase = "input_error" =>
        /\ console # {}
        /\ shown = <<>>
        /\ disk = <<>>
        /\ dirs = {}

(***************************************************************************)
(* The measures of a shape                                                 *)
(***************************************************************************)

\* C16: a polygon drawn at display scale s = num/den with display perimeter P
\* and display area A > 0 is recorded with perimeter P/s, area A/s^2 and pore
\* factor P^2/(16*A), by the manual segmenter and by the legacy drawing
\* script alike.
C16_CalibrationCorrection ==
    calc.kind = "record" =>
        LET P == PolygonLength(calc.shape)
            A == PolygonArea(calc.shape)
            num == calc.scale[1]
            den == calc.scale[2]
        IN  /\ calc.rec[2] = (P * den) \div num
            /\ calc.rec[3] = (A * den * den) \div (num * num)
            /\ calc.rec[4] = (P * P) \div (16 * A)

(***************************************************************************)
(* The pipeline as a whole                                                 *)
(***************************************************************************)

\* How many objects _process_image detects on the image at hand when min_area
\* is a and every other parameter is as it is.
CountWith(a) == Len(ProcessImage(image, [p EXCEPT !.min_area = a]).objects)

\* C17: with the image and every other parameter held, a larger min_area never
\* detects more objects: the finished run's count bounds the count under every
\* larger min_area and is bounded by the count under every smaller one.
C17_MinAreaMonotone ==
    pc = "done" /\ variant = "opus25" =>
        \A a \in MinAreaValues :
            /\ a >= p.min_area => CountWith(a) <= Len(object_list)
            /\ a <= p.min_area => CountWith(a) >= Len(object_list)

\* C17 witness: a finished run that detected objects, of which a larger
\* min_area detects strictly fewer.
C17_Witness ==
    /\ pc = "done" /\ variant = "opus25"
    /\ Len(object_list) > 0
    /\ \E a \in MinAreaValues :
          a > p.min_area /\ CountWith(a) < Len(object_list)

\* The visited contours whose raw perimeter is zero.
ZeroRaw == {i \in Visited : ArcLength(contours[i].pts) = 0}

Blank == image = <<>>

C20_CircleMetricsOne ==
    calc.kind = "metrics" =>
        /\ Abs(calc.circularity - FP) <= 1
        /\ Abs(calc.pore_factor - FP) <= 1

\* C20, amended: for a regular n-gon with n >= 360 the circularity is 1.0
\* within tolerance and the pore factor is pi/4 within tolerance.
C20_CircleMetrics ==
    calc.kind = "metrics" =>
        /\ Abs(calc.circularity - FP) <= 1
        /\ Abs(calc.pore_factor - PiFP \div 4) <= 1

\* C20 witness: the ratios of the 360-gon of the largest radius are computed.
C20_Witness ==
    calc.kind = "metrics" /\ calc.n = 360 /\ calc.r = MaxRadius

(***************************************************************************)
(* The end of a session, its progress                                      *)
(***************************************************************************)

\* The image sequence is exhausted: the calibrator's cursor is the number of
\* images; the analyzer's for loop has taken the last image and left it.
Exhausted ==
    \/ tool = "PixelCalibrator" /\ current_image_index >= Len(image_files)
    \/ tool = "PoreAnalyzer" /\ img_i >= Len(image_files) /\ phase # "show"

\* A window is open, so the handlers can be called.
WindowOpen == phase = "show"

\* C21: once the sequence is exhausted no window is open and no step appends
\* a record, moves the cursor, changes the points or writes a file; and
\* whenever a handler can run, the cursor is the index of an image.
C21_DoneIsTerminal ==
    /\ [](Exhausted => ~WindowOpen)
    /\ []((tool = "PixelCalibrator" /\ WindowOpen) =>
              /\ current_image_index < Len(image_files)
              /\ current_image_path = image_files[current_image_index + 1])
    /\ []((tool = "PoreAnalyzer" /\ WindowOpen) =>
              /\ img_i \in 1..Len(image_files)
              /\ current_image_path = image_files[img_i])
    /\ [][Exhausted =>
             UNCHANGED <<distance_results, current_image_index, points,
                         define_point_active, img_i, object_data, disk, shown>>]_vars

\* C21 witness: the calibrator committed its last image; the two points of
\* that commit are still selected and the cursor is the number of images.
C21_Witness ==
    /\ tool = "PixelCalibrator" /\ phase = "done"
    /\ current_image_index = Len(image_files)
    /\ Len(points) = 2
    /\ distance_results # <<>>

\* C22: the preview of an image under a setting of the sliders is the one
\* shown when that setting was first reached on this image, whatever settings
\* were visited in between; and no step on an open image changes the loaded
\* image or the baseline parameters.
C22_NoHistory ==
    /\ [](InPreview =>
            /\ sliders \in DOMAIN memo
            /\ memo[sliders] = [mask |-> processed_image, objects |-> object_data])
    /\ [][(InPreview /\ InPreview') =>
             original_image' = original_image /\ params' = params]_vars

\* C22 witness: two slider moves brought the sliders back to the setting the
\* image opened with, through a setting whose list was different.
C22_Witness ==
    /\ InPreview /\ last = "edit" /\ edits = 2
    /\ sliders = CreateWidgets(params)
    /\ object_data # <<>>
    /\ \E sl \in DOMAIN memo : memo[sl].objects # object_data

\* The window of the n-th presented image is open.
WaitingAt(n) == WindowOpen /\ Len(shown) = n

\* C23: the cursor never decreases; the images presented are distinct images
\* of the listing, in its order, so at most as many as the listing holds;
\* and if no window stays open for ever (the operator commits or closes
\* every image presented), the session reaches its end.
C23_Progress ==
    /\ [][img_i' >= img_i /\ current_image_index' >= current_image_index]_vars
    /\ [](/\ \A i \in DOMAIN shown : \E k \in DOMAIN image_files : shown[i] = image_files[k]
          /\ \A i, j \in DOMAIN shown :
                 i < j => FileIndex(shown[i]) < FileIndex(shown[j])
          /\ Len(shown) <= Len(image_files)
          /\ img_i <= Len(image_files)
          /\ current_image_index <= Len(image_files))
    /\ (\A n \in 1..NumImages : []<>(~WaitingAt(n))) => <>(phase = "done")

\* C23 witness: the run is over, after every image of the listing was
\* presented and committed.
C23_Witness ==
    /\ phase = "done" /\ last # "close"
    /\ Len(shown) = Len(image_files)
    /\ abandoned = {}

(***************************************************************************)
(* The result list of the pipeline                                         *)
(***************************************************************************)

\* Contour i passes the degenerate checks and the filter.
CandPasses(i) ==
    /\ ~CandDegenerate(i)
    /\ CandArea(i) > p.min_area
    /\ (4 * PiFP * CandArea(i))
           \div ((CandPerimeter(i) * CandPerimeter(i)) \div FP) >= p.min_circ

\* The visited contours that pass, in extraction order.
PassingInOrder == SelectSeq([i \in 1..Len(trace) |-> i], CandPasses)

\* C24: the result list holds, in extraction order, one entry for each
\* visited contour that passes the degenerate checks and the filter, with
\* that contour's measures, and nothing else; the function returns that list.
C24_ResultOrder ==
    variant = "opus25" =>
        /\ Len(object_list) = Len(PassingInOrder)
        /\ \A k \in DOMAIN object_list :
               /\ object_list[k][1] = CandPerimeter(PassingInOrder[k])
               /\ object_list[k][2] = CandArea(PassingInOrder[k])
        /\ pc = "done" => ProcessImage(image, p).objects = object_list

\* C24 witness: two contours of different measures were accepted, with a
\* contour between them that was not.
C24_Witness ==
    /\ variant = "opus25" /\ pc = "done"
    /\ \E i, j, k \in Visited :
          /\ i < j /\ j < k
          /\ CandPasses(i) /\ ~CandPasses(j) /\ CandPasses(k)
          /\ CandArea(i) # CandArea(k)

\* The perimeter of the raw contour i, and the tolerance made from it.
RawPerimeter(i) == ArcLength(contours[i].pts)

RawTolerance(i) == (p.epsilon * RawPerimeter(i)) \div FP

\* C25: for every contour that is approximated, the tolerance is epsilon
\* times the perimeter of the raw contour; the perimeter and area stored for
\* an accepted contour, its circularity and its pore factor, and the filter's
\* verdict, are those of the approximated polygon.
C25_TwoPerimeters ==
    \A i \in Visited :
        trace[i].approx_called =>
            LET approx == ApproxPolyDP(contours[i], RawTolerance(i))
                P == ArcLength(approx)
                A == ContourArea(approx)
            IN  /\ trace[i].epsilon = RawTolerance(i)
                /\ trace[i].approx = approx
                /\ trace[i].kind \in {"accepted", "rejected"} =>
                       (trace[i].kind = "accepted" <=>
                            /\ A > p.min_area
                            /\ (4 * PiFP * A) \div ((P * P) \div FP) >= p.min_circ)
                /\ trace[i].kind = "accepted" =>
                       /\ trace[i].obj[1] = P
                       /\ trace[i].obj[2] = A
                       /\ trace[i].obj[Len(trace[i].obj)] = (P * P) \div (16 * A)
                       /\ variant = "opus25" =>
                              trace[i].obj[3] = (4 * PiFP * A) \div ((P * P) \div FP)

\* C25 witness: a contour was accepted whose approximated polygon is shorter
\* and smaller than the raw contour, and whose raw measures would have given
\* another circularity.
C25_Witness ==
    \E i \in Visited :
        /\ trace[i].kind = "accepted" /\ variant = "opus25"
        /\ trace[i].epsilon > 0
        /\ trace[i].obj[1] < RawPerimeter(i)
        /\ trace[i].obj[2] < ContourArea(contours[i].pts)
        /\ trace[i].obj[3] #
               (4 * PiFP * ContourArea(contours[i].pts))
                   \div ((RawPerimeter(i) * RawPerimeter(i)) \div FP)

\* C26: in the older Canny script the mask image and the table of an image
\* are written only upon an explicit commit of the operator: while an image
\* is on screen, and when its window has been closed, the output directory
\* holds what it held before the image was opened.
C26_LegacyPersistOnCommit ==
    tool = "LegacyCanny" /\ (phase = "show" \/ last = "close") => disk = disk_at_open

\* C27: in the older calibration script an unreadable image that the batch
\* has come to is skipped with a warning, no record carries its filename,
\* and the batch goes on: the window is open only on a readable image, the
\* one on screen, and the script ends only past the last image or when the
\* operator closes the window.
C27_LegacyUnreadableSkipped ==
    tool = "LegacyCalibrator" =>
        /\ \A j \in DOMAIN distance_results : distance_results[j][1] \notin unreadable
        /\ \A k \in 1..Len(image_files) :
               (image_files[k] \in unreadable /\ phase # "loop"
                    /\ k <= current_image_index + 1)
                   => <<"Skipping", image_files[k]>> \in console
        /\ phase = "show" =>
               current_image_path \notin unreadable /\ shown[Len(shown)] = current_image_path
        /\ (phase = "done" /\ last # "close") => current_image_index >= Len(image_files)

\* The square of the distance between two points, in pixels.
SquaredDistance(a, b) == (a[1] - b[1]) * (a[1] - b[1]) + (a[2] - b[2]) * (a[2] - b[2])

\* C28: in the calibrator, while the number of selected points is not two no
\* step changes distance_results, the cursor or the output file; a refused
\* 'Save & Next' prints the error and leaves the points and the define flag
\* as they are; a record is appended only from exactly two points, carries
\* the current filename, and its distance is the Euclidean distance between
\* the two points (to the last digit of the fixed point).
C28_CommitPrecondition ==
    [][tool = "PixelCalibrator" /\ phase = "show" =>
        /\ Len(points) # 2 =>
               UNCHANGED <<distance_results, current_image_index, disk>>
        /\ last' = "refused" =>
               /\ UNCHANGED <<pcVars, disk, phase, current_image_path>>
               /\ <<"Error: Please select exactly two points", current_image_path>>
                      \in console'
        /\ distance_results' # distance_results =>
               /\ Len(points) = 2
               /\ Len(distance_results') = Len(distance_results) + 1
               /\ SubSeq(distance_results', 1, Len(distance_results)) = distance_results
               /\ LET rec == distance_results'[Len(distance_results')]
                      sq == FP * FP * SquaredDistance(points[1], points[2])
                  IN  /\ rec[1] = current_image_path
                      /\ rec[2] * rec[2] <= sq
                      /\ sq < (rec[2] + 1) * (rec[2] + 1)]_vars

\* A refused commit with one point selected, after an earlier commit whose
\* points were apart.
C28_Witness ==
    /\ tool = "PixelCalibrator" /\ phase = "show"
    /\ last = "refused" /\ Len(points) = 1 /\ define_point_active
    /\ <<"Error: Please select exactly two points", current_image_path>> \in console
    /\ \E j \in DOMAIN distance_results : distance_results[j][2] = 5 * FP

\* C29: in the calibrator the list of selected points never has more than
\* two entries; a click adds its point when define mode is active, the click
\* is inside the axes and fewer than two points are selected, and otherwise
\* changes nothing; the list grows in no other way; 'Define Points' turns
\* define mode on and empties the list.
C29_PointSelection ==
    [][tool = "PixelCalibrator" =>
        /\ Len(points) <= 2 /\ Len(points') <= 2
        /\ \A inaxes \in BOOLEAN : \A pt \in CalibrationPoints :
               PCOnClick(inaxes, pt) =>
                   IF define_point_active /\ inaxes /\ Len(points) < 2
                   THEN /\ points' = Append(points, pt)
                        /\ UNCHANGED <<current_image_index, distance_results,
                                       define_point_active, disk, phase>>
                   ELSE UNCHANGED vars
        /\ Len(points') > Len(points) =>
               /\ define_point_active /\ Len(points) < 2 /\ phase = "show"
               /\ \E pt \in CalibrationPoints : points' = Append(points, pt)
        /\ PCActivateDefineMode => define_point_active' /\ points' = <<>>]_vars

\* The second point has just been added by a click in define mode.
C29_Witness ==
    /\ tool = "PixelCalibrator" /\ phase = "show"
    /\ last = "click" /\ define_point_active /\ Len(points) = 2
    /\ points[1] # points[2]

\* The messages of 'Define Points' and of an accepted click, as printed
\* while image f was the current one.
DefinedOn(f) == <<"Define mode activated", f>> \in console

ClickedOn(f) == <<"Point selected", f>> \in console

\* C30: in the calibrator, whenever another image becomes the current one
\* the list of points is empty and define mode is off; so define mode is on
\* only after 'Define Points' was pressed on the current image, selected
\* points were clicked on the current image in define mode, and every record
\* carries the name of an image that was on screen, on which 'Define Points'
\* was pressed and points were clicked; no image has two records.
C30_PerImageReset ==
    [][tool = "PixelCalibrator" =>
        /\ (current_image_path' # current_image_path \/ Len(shown') > Len(shown)) =>
               points' = <<>> /\ ~define_point_active'
        /\ (phase' = "show" /\ define_point_active') => DefinedOn(current_image_path)'
        /\ (phase' = "show" /\ points' # <<>>) =>
               define_point_active' /\ ClickedOn(current_image_path)'
        /\ \A j \in DOMAIN distance_results' :
               LET f == distance_results'[j][1]
               IN  /\ \E k \in DOMAIN shown' : shown'[k] = f
                   /\ <<"Define mode activated", f>> \in console'
                   /\ <<"Point selected", f>> \in console'
                   /\ \A i \in DOMAIN distance_results' :
                          distance_results'[i][1] = f => i = j
        /\ distance_results' # distance_results =>
               /\ distance_results'[Len(distance_results')][1] = current_image_path
               /\ define_point_active /\ DefinedOn(current_image_path)]_vars

\* The third image has just been put on screen by a commit, two records
\* behind it.
C30_Witness ==
    /\ tool = "PixelCalibrator" /\ phase = "show"
    /\ last = "save" /\ Len(distance_results) = 2 /\ Len(shown) = 3
    /\ points = <<>> /\ ~define_point_active

\* A closed ring: at least three clicked vertices and the first one repeated
\* at the end.
ClosedRing(shape) == Len(shape) >= 4 /\ shape[Len(shape)] = shape[1]

\* The positions clicked for a shape.
Positions(shape) == {shape[i] : i \in 1..Len(shape)}

\* C31 as stated: every shape on the current image is a closed ring with at
\* least three distinct vertex positions.
C31_ThreeDistinctPositions ==
    tool = "ManualSegmenter" =>
        \A j \in DOMAIN shapes_on_current_image :
            /\ ClosedRing(shapes_on_current_image[j])
            /\ Cardinality(Positions(shapes_on_current_image[j])) >= 3

\* C31: in the manual tool a left click inside the axes appends its vertex
\* to the polygon in progress; a right click inside the axes with three or
\* more vertices in progress stores them followed by the first one and
\* empties the polygon in progress; any other click changes nothing; so every
\* shape on the current image is a closed ring of at least three clicked
\* vertices (which may lie on one position), and a commit makes at most one
\* record per completed shape, none from the polygon in progress.
C31_PolygonDrawing ==
    [][tool = "ManualSegmenter" =>
        /\ \A inaxes \in BOOLEAN : \A button \in {1, 2, 3} : \A pt \in DrawPoints :
               (MSOnClick(inaxes, button, pt) /\ edits < MaxClicks) =>
                   IF inaxes /\ button = 1
                   THEN /\ current_points' = Append(current_points, pt)
                        /\ UNCHANGED <<shapes_on_current_image, all_shapes_data>>
                   ELSE IF inaxes /\ button = 3 /\ Len(current_points) >= 3
                   THEN /\ shapes_on_current_image' =
                               Append(shapes_on_current_image,
                                      current_points \o <<current_points[1]>>)
                        /\ current_points' = <<>>
                        /\ UNCHANGED all_shapes_data
                   ELSE UNCHANGED vars
        /\ \A j \in DOMAIN shapes_on_current_image' :
               ClosedRing(shapes_on_current_image'[j])
        /\ Len(all_shapes_data') <= Len(all_shapes_data) + Len(shapes_on_current_image)
        /\ (phase = "show" /\ last' = "save" /\ shapes_on_current_image = <<>>) =>
               all_shapes_data' = all_shapes_data]_vars

\* A commit with a completed triangle and a polygon still in progress: one
\* record more than when the image was opened.
C31_Witness ==
    /\ tool = "ManualSegmenter" /\ last = "save"
    /\ Len(shapes_on_current_image) = 1 /\ current_points # <<>>
    /\ Cardinality(Positions(shapes_on_current_image[1])) = 3
    /\ Len(all_shapes_data) = Len(data_at_open) + 1

\* C32: 'Clear Shapes' in the manual tool empties the completed shapes of the
\* current image and the polygon in progress, and leaves all_shapes_data, the
\* current image, the position in the image sequence, the open window and
\* the files as they are.
C32_ClearShapes ==
    [][(tool = "ManualSegmenter" /\ (MSClearShapes \/ last' = "clear")) =>
        /\ shapes_on_current_image' = <<>>
        /\ current_points' = <<>>
        /\ UNCHANGED <<all_shapes_data, current_image_path, img_i, phase, disk,
                       shown>>]_vars

\* 'Clear Shapes' pressed on the second image, after presses on it, with the
\* record of the first image kept.
C32_Witness ==
    /\ tool = "ManualSegmenter" /\ phase = "show" /\ last = "clear"
    /\ Len(shown) = 2 /\ edits = MaxDraw
    /\ Len(all_shapes_data) = 1 /\ all_shapes_data = data_at_open
    /\ all_shapes_data[1][1] = shown[1]
    /\ shapes_on_current_image = <<>> /\ current_points = <<>>

\* C33: in the manual tools a completed polygon of area zero makes no record
\* and no error, when the image is committed or when the shape is closed:
\* every record has a positive area and a pore factor, and no handler has
\* ended in an exception.
C33_ZeroAreaShapes ==
    tool \in {"ManualSegmenter", "LegacyDraw"} =>
        /\ \A j \in DOMAIN all_shapes_data :
               all_shapes_data[j][3] > 0 /\ all_shapes_data[j][4] >= 0
        /\ \A f \in {image_files[k] : k \in DOMAIN image_files} \ unreadable :
               <<"ZeroDivisionError", f>> \notin console

\* The records of the calibrator carry files of the sequence, each at most
\* once, in the order of the sequence, all before the cursor.
RecordsBehindCursor(results, index) ==
    /\ Len(results) <= index /\ index <= Len(image_files)
    /\ \A j \in DOMAIN results :
           \E k \in 1..index : image_files[k] = results[j][1]
    /\ \A i, j \in DOMAIN results :
           i < j => \E a, b \in 1..index :
                       /\ a < b
                       /\ image_files[a] = results[i][1]
                       /\ image_files[b] = results[j][1]

\* C34: in the calibrator every commit appends exactly one record, tagged
\* with the file at the cursor, and moves the cursor forward by one or more;
\* the cursor never moves back; in every state len(distance_results) <=
\* current_image_index <= len(image_files), and the records' filenames are
\* pairwise distinct and in the order of the image sequence.
C34_RecordCursor ==
    [][tool = "PixelCalibrator" =>
        /\ RecordsBehindCursor(distance_results, current_image_index)
        /\ RecordsBehindCursor(distance_results', current_image_index')
        /\ current_image_index' >= current_image_index
        /\ distance_results' # distance_results =>
               /\ distance_results' =
                      Append(distance_results, distance_results'[Len(distance_results')])
               /\ distance_results'[Len(distance_results')][1] =
                      image_files[current_image_index + 1]
               /\ current_image_index' > current_image_index]_vars

\* Two commits and one unreadable image skipped between the first and the
\* last image: the cursor is at the end, one ahead of the records.
C34_Witness ==
    /\ tool = "PixelCalibrator" /\ last = "save"
    /\ Len(distance_results) = 2
    /\ current_image_index = Len(image_files)
    /\ distance_results[1][1] = image_files[1]
    /\ image_files[2] \in unreadable
    /\ distance_results[2][1] = image_files[3]

\* C35: within one run the commit of an image leaves every file that was
\* under the output root when the image was opened, the mask, table and
\* annotated image committed for the images before it, in place with its
\* content.
C35_NoOverwrite ==
    (tool \in {"PoreAnalyzer", "ManualSegmenter"} /\ last = "save") =>
        \A path \in DOMAIN disk_at_open :
            path \in DOMAIN disk /\ disk[path] = disk_at_open[path]

\* The object list _process_image gives on the image at hand when
\* min_circularity is c and every other parameter is as it is.
ObjectsWith(c) == ProcessImage(image, [p EXCEPT !.min_circ = c]).objects

\* The objects of a list whose circularity is at least c, in the list's order.
AtLeastCircular(objects, c) ==
    LET Keep(o) == o[3] >= c IN SelectSeq(objects, Keep)

\* C36: with the image and every other parameter held, the object list
\* under a larger min_circularity is the list under the smaller one with the
\* objects below the larger value taken out: a subsequence, in the same
\* order, with the same four metric values for the objects kept.
C36_MinCircMonotone ==
    pc = "done" /\ variant = "opus25" =>
        \A c \in MinCircValues :
            /\ c >= p.min_circ => ObjectsWith(c) = AtLeastCircular(object_list, c)
            /\ c <= p.min_circ =>
                   object_list = AtLeastCircular(ObjectsWith(c), p.min_circ)

\* A finished run with two or more objects, of which a larger
\* min_circularity keeps some and drops some.
C36_Witness ==
    /\ pc = "done" /\ variant = "opus25"
    /\ Len(object_list) >= 2
    /\ \E c \in MinCircValues :
          /\ c > p.min_circ
          /\ Len(ObjectsWith(c)) > 0
          /\ Len(ObjectsWith(c)) < Len(object_list)

\* The edge map of the run at hand: cv2.Canny on the blurred image.
EdgeMap == Canny(MedianBlur(GaussianBlur(image, g_k), m_k), p.canny_low, p.canny_high)

\* C37: past the threshold stage the binary image holds only 0 and 255; the
\* edge map holds only 0 and 255, and thresholding it at any value of 0..254
\* gives the edge map itself, so with binary_thresh in 0..254 the binary
\* image is the edge map; with binary_thresh = 255 the binary image is all
\* zero, no contour is found, and the finished run has an empty object list
\* and an all-zero mask.
C37_Binarization ==
    pc # "start" =>
        /\ \A i \in DOMAIN binary : binary[i] \in {0, 255}
        /\ \A i \in DOMAIN EdgeMap : EdgeMap[i] \in {0, 255}
        /\ \A t \in 0..254 : Threshold(EdgeMap, t) = EdgeMap
        /\ p.binary_thresh \in 0..254 => binary = EdgeMap
        /\ \A i \in DOMAIN EdgeMap : Threshold(EdgeMap, 255)[i] = 0
        /\ p.binary_thresh = 255 =>
               /\ \A i \in DOMAIN binary : binary[i] = 0
               /\ contours = <<>>
               /\ pc = "done" => object_list = <<>> /\ filtered_image = {}

\* A finished run at binary_thresh = 255 on an image whose edge map is not
\* empty: nothing is detected.
C37_Witness ==
    /\ pc = "done" /\ variant = "opus25"
    /\ p.binary_thresh = 255
    /\ \E i \in DOMAIN EdgeMap : EdgeMap[i] = 255
    /\ object_list = <<>> /\ filtered_image = {}

====
